---- MODULE Spec2Model ----


(***************************************************************************)
(* Multiblast: the scheduling/simulation engines of the development-mining *)
(* advance simulator.                                                      *)
(*                                                                         *)
(*  - the tick engine of src/engine/simulate.ts (runEngine and helpers);   *)
(*  - the event-dispatch engine of src/App.tsx 824-1318 (simulateScenario  *)
(*    with shared resource pools and the shift calendar);                  *)
(*  - the per-heading sequential engine of src/App.tsx 559-822;            *)
(*  - the pending-blast tick engine of src/App.tsx 19-557;                 *)
(*  - the shift calendar helpers of src/App.tsx 955-1040 on their own.     *)
(*                                                                         *)
(* All times are integer minutes.  Numbers are modelled as integers: the   *)
(* Number.isFinite tests of the validators are true of every modelled      *)
(* value, and Math.floor is the identity on them.                          *)
(***************************************************************************)
EXTENDS Integers, Sequences, FiniteSets, TLC

VARIABLES
    s,                \* the Scenario handed to runEngine
    captureTimeline,  \* RunOptions.captureTimeline
    pc,               \* position in runEngine: start, loop, headings, done, error
    nowMin,           \* the tick loop's clock
    hi,               \* index of the heading the inner loop is at (H1 = 1)
    headings,         \* HeadingState per heading
    avail,            \* the tick's ResourcePool
    openByHeading,    \* timeline capture: the open interval per heading
    intervals,        \* timeline capture: the closed intervals
    kpis,             \* the SimulationKpis computed at the end
    errorMsg,         \* the message of the Error thrown, or "none"
    tickWork,         \* history: per heading, the resource it consumed in this tick
    runNo,            \* which run of the same scenario this is
    firstRun,         \* the outcome of the first run
    \* ---- the event-dispatch engine (App.tsx 1131-1318) ----
    scenario,         \* its Scenario
    options,          \* its SimulateOptions
    epc,              \* position in simulateScenario: idle, start, dispatch, done, error
    pools,            \* resource kind -> Pool (per-unit next-free times, busyMin)
    headingTime,      \* per heading: its clock
    headingReentryAllowedAt, \* per heading: end of its blast lockout
    headingRoundIndex,       \* per heading: rounds begun
    headingStageIndex,       \* per heading: index of its next stage
    runs,             \* the recorded StageRuns
    roundsCompletedTotal,
    result,           \* the SimulationResult's KPIs and utilization
    thrown,           \* the message of the Error thrown, or "none"
    \* ---- the per-heading sequential engine (App.tsx 705-822) ----
    \* (it shares scenario, options, epc, headingTime, headingReentryAllowedAt,
    \*  runs, roundsCompletedTotal, result and thrown with the engine above)
    seqHeading,       \* the heading the outer loop is at (the code's h + 1)
    roundIndex,       \* the round the heading's while loop is at
    \* ---- the shift calendar helpers applied on their own (App.tsx 955-1040) ----
    calArgs,          \* the arguments: tMin, durationMin, shiftMinutes, shiftsPerDay
    calOut,           \* what the helpers returned for them
    \* ---- the pending-blast tick engine (App.tsx 126-328) ----
    \* (it shares the variables of the tick engine above)
    pendingBlasts     \* the deferred blasts: headingId, scheduledAtMin

tickVars == <<s, captureTimeline, pc, nowMin, hi, headings, avail, openByHeading,
              intervals, kpis, errorMsg, tickWork, runNo, firstRun>>

evVars == <<scenario, options, epc, pools, headingTime, headingReentryAllowedAt,
            headingRoundIndex, headingStageIndex, runs, roundsCompletedTotal,
            result, thrown>>

seqVars == <<seqHeading, roundIndex>>

calVars == <<calArgs, calOut>>

pbVars == <<pendingBlasts>>

vars == <<tickVars, evVars, seqVars, calVars, pbVars>>

(***************************************************************************)
(* Bounds of the model.                                                    *)
(***************************************************************************)
MaxHeadings == 2
MaxCap == 1
MaxSimDays == 1

(***************************************************************************)
(* Program constants.                                                      *)
(***************************************************************************)
REENTRY_MIN_MIDSHIFT == 30
MinutesPerDay == 24 * 60

ResourceKeys == {"drillRigs", "lhds", "supportCrews", "blastCrews"}
NoKey == "none"

Max(a, b) == IF a >= b THEN a ELSE b
Min(a, b) == IF a <= b THEN a ELSE b

(***************************************************************************)
(* Helpers (simulate.ts 535-561).                                          *)
(***************************************************************************)
\* A heading left over from an earlier run is taken up again.
newHeadingKept(id, sc) ==
    IF id \in DOMAIN headings THEN headings[id]
    ELSE [stage |-> "DRILL", remainingMin |-> sc.durations.drill, busyMin |-> 0,
          roundsCompleted |-> 0, metresAdvanced |-> 0]

newHeading(id, sc) ==
    [stage |-> "DRILL", remainingMin |-> sc.durations.drill, busyMin |-> 0,
     roundsCompleted |-> 0, metresAdvanced |-> 0]

\* scheduledShiftMin = 0 stands for a missing value: both fall back.
getScheduledShiftMin(sc) ==
    IF sc.shift.scheduledShiftMin <= 0 THEN sc.shift.shiftDurationMin
    ELSE sc.shift.scheduledShiftMin

shiftBoundaries(now, sc) ==
    LET sched == getScheduledShiftMin(sc)
        workable == Max(0, Min(sched, sc.shift.shiftDurationMin))
        shiftStart == (now \div sched) * sched
    IN [shiftStart |-> shiftStart, workEnd |-> shiftStart + workable,
        shiftEnd |-> shiftStart + sched]

(***************************************************************************)
(* Resources (simulate.ts 341-374).                                        *)
(***************************************************************************)
clampNonNegInt(n) == Max(0, n)

\* The units of each kind are split evenly among the headings.
makeResourcePoolSplit(sc) ==
    [drillRigs    |-> clampNonNegInt(IF sc.hasResources THEN sc.resources.drillRigs ELSE sc.headings) \div sc.headings,
     lhds         |-> clampNonNegInt(IF sc.hasResources THEN sc.resources.lhds ELSE sc.headings) \div sc.headings,
     supportCrews |-> clampNonNegInt(IF sc.hasResources THEN sc.resources.supportCrews ELSE sc.headings) \div sc.headings,
     blastCrews   |-> clampNonNegInt(IF sc.hasResources THEN sc.resources.blastCrews ELSE 1) \div sc.headings]

makeResourcePool(sc) ==
    [drillRigs    |-> clampNonNegInt(IF sc.hasResources THEN sc.resources.drillRigs ELSE sc.headings),
     lhds         |-> clampNonNegInt(IF sc.hasResources THEN sc.resources.lhds ELSE sc.headings),
     supportCrews |-> clampNonNegInt(IF sc.hasResources THEN sc.resources.supportCrews ELSE sc.headings),
     blastCrews   |-> clampNonNegInt(IF sc.hasResources THEN sc.resources.blastCrews ELSE 1)]

isJumboBoltingEnabled(sc) == sc.support.jumboBolting = TRUE

\* The jumboBolting flag is not looked at: SUPPORT always takes a support crew.
resourceForWorkStageNoJumbo(stage, sc) ==
    CASE stage = "DRILL"   -> "drillRigs"
      [] stage = "CHARGE"  -> "blastCrews"
      [] stage = "MUCK"    -> "lhds"
      [] stage = "SUPPORT" -> "supportCrews"
      [] OTHER             -> NoKey

resourceForWorkStage(stage, sc) ==
    CASE stage = "DRILL"   -> "drillRigs"
      [] stage = "CHARGE"  -> "blastCrews"
      [] stage = "MUCK"    -> "lhds"
      [] stage = "SUPPORT" -> IF isJumboBoltingEnabled(sc) THEN "drillRigs" ELSE "supportCrews"
      [] OTHER             -> NoKey

(***************************************************************************)
(* Core simulation logic (simulate.ts 221-335).                            *)
(***************************************************************************)
\* The round is counted but the advance is one metre whatever the scenario says.
completeRoundOneMetre(h, sc) ==
    [h EXCEPT !.roundsCompleted = @ + 1, !.metresAdvanced = @ + 1]

completeRound(h, sc) ==
    [h EXCEPT !.roundsCompleted = @ + 1,
              !.metresAdvanced = @ + sc.metresPerRound]

\* Every blast fires as soon as it is ready, whatever the blast timing.
onBlastReadyAtOnce(h, now, tickMin, sc) ==
    [h EXCEPT !.stage = "REENTRY", !.remainingMin = REENTRY_MIN_MIDSHIFT]

\* The two blast policies are taken for each other.
onBlastReadySwapped(h, now, tickMin, sc) ==
    IF sc.shift.blastTiming # "midshift"
    THEN [h EXCEPT !.stage = "REENTRY", !.remainingMin = REENTRY_MIN_MIDSHIFT]
    ELSE LET b == shiftBoundaries(now, sc)
             toWaiting(x) == [x EXCEPT !.stage = "WAITING_FOR_BLAST",
                                       !.remainingMin = Max(0, b.shiftEnd - (now + tickMin))]
         IN IF now >= b.workEnd
            THEN toWaiting(h)
            ELSE LET rem == IF h.remainingMin <= 0
                            THEN Max(0, b.workEnd - now)
                            ELSE Max(0, h.remainingMin - tickMin)
                     h1 == [h EXCEPT !.remainingMin = rem]
                 IN IF rem = 0 THEN toWaiting(h1) ELSE h1

onBlastReady(h, now, tickMin, sc) ==
    IF sc.shift.blastTiming = "midshift"
    THEN [h EXCEPT !.stage = "REENTRY", !.remainingMin = REENTRY_MIN_MIDSHIFT]
    ELSE LET b == shiftBoundaries(now, sc)
             toWaiting(x) == [x EXCEPT !.stage = "WAITING_FOR_BLAST",
                                       !.remainingMin = Max(0, b.shiftEnd - (now + tickMin))]
         IN IF now >= b.workEnd
            THEN toWaiting(h)
            ELSE LET rem == IF h.remainingMin <= 0
                            THEN Max(0, b.workEnd - now)
                            ELSE Max(0, h.remainingMin - tickMin)
                     h1 == [h EXCEPT !.remainingMin = rem]
                 IN IF rem = 0 THEN toWaiting(h1) ELSE h1

\* The timer runs out into DRILL: mucking is skipped.
timerThenDrill(h, tickMin, sc) ==
    LET rem == IF h.remainingMin > 0 THEN Max(0, h.remainingMin - tickMin)
               ELSE h.remainingMin
    IN IF rem = 0
       THEN [h EXCEPT !.stage = "DRILL", !.remainingMin = sc.durations.drill]
       ELSE [h EXCEPT !.remainingMin = rem]

\* REENTRY and WAITING_FOR_BLAST: a timer, then MUCK.
timerThenMuck(h, tickMin, sc) ==
    LET rem == IF h.remainingMin > 0 THEN Max(0, h.remainingMin - tickMin)
               ELSE h.remainingMin
    IN IF rem = 0
       THEN [h EXCEPT !.stage = "MUCK", !.remainingMin = sc.durations.muck]
       ELSE [h EXCEPT !.remainingMin = rem]

\* The round is counted when MUCK completes, support stage or not.
workTickCountsMuck(h, tickMin, sc) ==
    LET rem == IF h.remainingMin > 0 THEN Max(0, h.remainingMin - tickMin)
               ELSE h.remainingMin
        h1 == [h EXCEPT !.busyMin = @ + tickMin, !.remainingMin = rem]
    IN IF rem > 0 THEN h1
       ELSE CASE h.stage = "DRILL" ->
                   [h1 EXCEPT !.stage = "CHARGE", !.remainingMin = sc.durations.charge]
              [] h.stage = "CHARGE" ->
                   [h1 EXCEPT !.stage = "BLAST_READY", !.remainingMin = 0]
              [] h.stage = "MUCK" ->
                   IF sc.durations.support > 0
                   THEN [completeRound(h1, sc) EXCEPT !.stage = "SUPPORT",
                                                      !.remainingMin = sc.durations.support]
                   ELSE [completeRound(h1, sc) EXCEPT !.stage = "DRILL",
                                                      !.remainingMin = sc.durations.drill]
              [] h.stage = "SUPPORT" ->
                   [h1 EXCEPT !.stage = "DRILL", !.remainingMin = sc.durations.drill]
              [] OTHER -> h1

\* The work done once the resource (if any) is held.
workTick(h, tickMin, sc) ==
    LET rem == IF h.remainingMin > 0 THEN Max(0, h.remainingMin - tickMin)
               ELSE h.remainingMin
        h1 == [h EXCEPT !.busyMin = @ + tickMin, !.remainingMin = rem]
    IN IF rem > 0 THEN h1
       ELSE CASE h.stage = "DRILL" ->
                   [h1 EXCEPT !.stage = "CHARGE", !.remainingMin = sc.durations.charge]
              [] h.stage = "CHARGE" ->
                   [h1 EXCEPT !.stage = "BLAST_READY", !.remainingMin = 0]
              [] h.stage = "MUCK" ->
                   IF sc.durations.support > 0
                   THEN [h1 EXCEPT !.stage = "SUPPORT", !.remainingMin = sc.durations.support]
                   ELSE [completeRound(h1, sc) EXCEPT !.stage = "DRILL",
                                                      !.remainingMin = sc.durations.drill]
              [] h.stage = "SUPPORT" ->
                   [completeRound(h1, sc) EXCEPT !.stage = "DRILL",
                                                 !.remainingMin = sc.durations.drill]
              [] OTHER -> h1

\* A heading that finds no unit left is still charged the tick as busy time.
advanceHeadingByTickBusyWait(h, now, tickMin, sc, pool) ==
    IF h.stage = "BLAST_READY"
    THEN [h |-> onBlastReady(h, now, tickMin, sc), avail |-> pool,
          progressed |-> TRUE, used |-> NoKey]
    ELSE IF h.stage \in {"REENTRY", "WAITING_FOR_BLAST"}
    THEN [h |-> timerThenMuck(h, tickMin, sc), avail |-> pool,
          progressed |-> TRUE, used |-> NoKey]
    ELSE IF resourceForWorkStage(h.stage, sc) # NoKey /\ pool[resourceForWorkStage(h.stage, sc)] <= 0
    THEN [h |-> [h EXCEPT !.busyMin = @ + tickMin], avail |-> pool,
          progressed |-> FALSE, used |-> NoKey]
    ELSE [h |-> workTick(h, tickMin, sc),
          avail |-> IF resourceForWorkStage(h.stage, sc) # NoKey
                    THEN [pool EXCEPT ![resourceForWorkStage(h.stage, sc)] = @ - 1]
                    ELSE pool,
          progressed |-> TRUE, used |-> resourceForWorkStage(h.stage, sc)]

\* The pool is not consulted.
canAcquireUnchecked(pool, key) == TRUE

\* Whether a work stage may take its resource from the pool.
canAcquire(pool, key) == ~(pool[key] <= 0)

\* The result of advanceHeadingByTick: the heading, the pool, the return
\* value, and the resource consumed (NoKey when none was).
advanceHeadingByTick(h, now, tickMin, sc, pool) ==
    IF h.stage = "BLAST_READY"
    THEN [h |-> onBlastReady(h, now, tickMin, sc), avail |-> pool,
          progressed |-> TRUE, used |-> NoKey]
    ELSE IF h.stage \in {"REENTRY", "WAITING_FOR_BLAST"}
    THEN [h |-> timerThenMuck(h, tickMin, sc), avail |-> pool,
          progressed |-> TRUE, used |-> NoKey]
    ELSE LET key == resourceForWorkStage(h.stage, sc)
         IN IF key # NoKey /\ ~canAcquire(pool, key)
            THEN [h |-> h, avail |-> pool, progressed |-> FALSE, used |-> NoKey]
            ELSE [h |-> workTick(h, tickMin, sc),
                  avail |-> IF key # NoKey THEN [pool EXCEPT ![key] = @ - 1] ELSE pool,
                  progressed |-> TRUE, used |-> key]

(***************************************************************************)
(* Validation and KPIs (simulate.ts 380-458).                              *)
(***************************************************************************)
\* The message validateScenario throws, or "ok".
validateScenario(sc) ==
    IF sc.simDays <= 0 THEN "simDays must be > 0"
    ELSE IF sc.tickMin <= 0 THEN "tickMin must be > 0"
    ELSE IF sc.headings <= 0 THEN "headings must be > 0"
    ELSE IF sc.metresPerRound <= 0 THEN "metresPerRound must be > 0"
    ELSE IF sc.shift.shiftDurationMin <= 0 THEN "shift.shiftDurationMin must be > 0"
    ELSE IF sc.shift.blastTiming \notin {"midshift", "endOfShift"}
         THEN "shift.blastTiming must be 'midshift' or 'endOfShift'"
    ELSE IF getScheduledShiftMin(sc) <= 0
         THEN "scheduledShiftMin must be > 0 (via legacyOptions.hoursPerShift)"
    ELSE IF sc.shift.shiftDurationMin > getScheduledShiftMin(sc)
         THEN "shiftDurationMin cannot exceed scheduled shift length"
    ELSE IF sc.durations.support < 0 THEN "durations.support must be >= 0 if provided"
    ELSE IF sc.hasResources /\ sc.resources.drillRigs < 0 THEN "resources.drillRigs must be >= 0"
    ELSE IF sc.hasResources /\ sc.resources.lhds < 0 THEN "resources.lhds must be >= 0"
    ELSE IF sc.hasResources /\ sc.resources.supportCrews < 0 THEN "resources.supportCrews must be >= 0"
    ELSE IF sc.hasResources /\ sc.resources.blastCrews < 0 THEN "resources.blastCrews must be >= 0"
    ELSE "ok"

RECURSIVE SumOver(_, _, _)
SumOver(hs, field, n) ==
    IF n = 0 THEN 0 ELSE hs[n][field] + SumOver(hs, field, n - 1)

\* Quotients are kept as numerator and denominator.
computeKpis(hs, sc, simMinutes) ==
    LET totalRounds == SumOver(hs, "roundsCompleted", sc.headings)
        totalMetres == SumOver(hs, "metresAdvanced", sc.headings)
    IN [simDays |-> sc.simDays,
        roundsCompletedTotal |-> totalRounds,
        roundsCompletedPerHeading |-> [num |-> totalRounds, den |-> sc.headings],
        metresAdvancedTotal |-> totalMetres,
        metresAdvancedPerHeading |-> [num |-> totalMetres, den |-> sc.headings],
        roundsPerDayTotal |-> [num |-> totalRounds, den |-> sc.simDays],
        metresPerDayTotal |-> [num |-> totalMetres, den |-> sc.simDays],
        headingUtilization |-> [num |-> SumOver(hs, "busyMin", sc.headings),
                                den |-> simMinutes * sc.headings]]

\* The check of the older engine (App.tsx 456-460): zero completed rounds.
assertSimulationProgressRounds(sc, hs) ==
    IF sc.simDays >= 1 /\ SumOver(hs, "roundsCompleted", sc.headings) = 0
    THEN "Simulation produced zero completed rounds (deadlock)."
    ELSE "ok"

assertSimulationProgressText ==
    "Simulation produced zero work (deadlock: no resources available to perform any stage)."

\* The message assertSimulationProgress throws, or "ok".
assertSimulationProgress(sc, hs) ==
    IF sc.simDays >= 1 /\ SumOver(hs, "busyMin", sc.headings) = 0
    THEN assertSimulationProgressText
    ELSE "ok"

(***************************************************************************)
(* Engine runner (simulate.ts 112-210).                                    *)
(***************************************************************************)
simMinutesOf(sc) == sc.simDays * 24 * 60

NoKpis == [simDays |-> 0]
NoPool == [k \in ResourceKeys |-> 0]

\* Lines 168-174: what the timeline shows for a heading after its step.
displayOf(stageBefore, r, sc) ==
    LET waitFor == IF r.progressed THEN NoKey ELSE resourceForWorkStage(stageBefore, sc)
        displayStage == IF r.progressed THEN r.h.stage
                        ELSE IF waitFor # NoKey THEN "WAITING_FOR_RESOURCE"
                        ELSE r.h.stage
    IN [stage |-> displayStage,
        waitFor |-> IF displayStage = "WAITING_FOR_RESOURCE" THEN waitFor ELSE NoKey]

\* The time at which a changed display closes the open interval (line 185).
splitAt(now, tickMin) == now + tickMin

\* closeAndOpen (lines 129-152), on the pair <<openByHeading, intervals>>.
closeAndOpen(tl, hid, nextStage, nextWaitFor, atMin) ==
    IF hid \notin DOMAIN tl.open
    THEN [tl EXCEPT !.open = (hid :> [stage |-> nextStage, startMin |-> atMin,
                                      waitFor |-> nextWaitFor]) @@ tl.open]
    ELSE LET open == tl.open[hid]
         IN IF open.stage = nextStage /\ open.waitFor = nextWaitFor
            THEN tl
            ELSE [open |-> [tl.open EXCEPT ![hid] = [stage |-> nextStage, startMin |-> atMin,
                                                     waitFor |-> nextWaitFor]],
                  intervals |-> Append(tl.intervals,
                                   [headingId |-> hid, stage |-> open.stage,
                                    startMin |-> open.startMin, endMin |-> atMin,
                                    waitFor |-> open.waitFor])]

\* Lines 176-187: the capture step of one heading in one tick.
captureStep(tl, hid, stageBefore, r, now, tickMin, sc) ==
    LET d == displayOf(stageBefore, r, sc)
        has == hid \in DOMAIN tl.open
        currentOpenStage == IF has THEN tl.open[hid].stage ELSE r.h.stage
        currentOpenWaitFor == IF has THEN tl.open[hid].waitFor ELSE NoKey
        \* openIfMissing (lines 124-127)
        tl1 == IF has THEN tl
               ELSE [tl EXCEPT !.open = (hid :> [stage |-> currentOpenStage, startMin |-> now,
                                                 waitFor |-> currentOpenWaitFor]) @@ tl.open]
    IN IF d.stage # currentOpenStage \/ d.waitFor # currentOpenWaitFor
       THEN closeAndOpen(tl1, hid, d.stage, d.waitFor, splitAt(now, tickMin))
       ELSE tl1

\* Lines 191-204: the open intervals are closed at simMinutes, heading by heading.
RECURSIVE closeAll(_, _, _, _)
closeAll(ints, open, i, sc) ==
    IF i > sc.headings THEN ints
    ELSE closeAll(IF i \in DOMAIN open
                  THEN Append(ints, [headingId |-> i, stage |-> open[i].stage,
                                     startMin |-> open[i].startMin,
                                     endMin |-> simMinutesOf(sc),
                                     waitFor |-> open[i].waitFor])
                  ELSE ints,
                  open, i + 1, sc)

\* Lines 113-156: validation, then the run's fresh state.
RunEngineStart ==
    /\ pc = "start"
    /\ IF validateScenario(s) # "ok"
       THEN /\ pc' = "error"
            /\ errorMsg' = validateScenario(s)
            /\ UNCHANGED <<nowMin, hi, headings, avail, openByHeading, intervals, tickWork>>
       ELSE /\ pc' = "loop"
            /\ errorMsg' = "none"
            /\ nowMin' = 0
            /\ hi' = 0
            /\ headings' = [i \in 1..s.headings |-> newHeading(i, s)]
            /\ intervals' = <<>>
            /\ openByHeading' = IF captureTimeline
                                THEN [i \in 1..s.headings |->
                                        [stage |-> "DRILL", startMin |-> 0, waitFor |-> NoKey]]
                                ELSE <<>>
            /\ avail' = NoPool
            /\ tickWork' = [i \in 1..s.headings |-> NoKey]
    /\ kpis' = NoKpis
    /\ UNCHANGED <<s, captureTimeline, runNo, firstRun>>
    /\ UNCHANGED <<evVars, seqVars, calVars, pbVars>>

\* Lines 158-160: a tick begins with a fresh pool.
TickBegin ==
    /\ pc = "loop"
    /\ nowMin < simMinutesOf(s)
    /\ avail' = makeResourcePool(s)
    /\ tickWork' = [i \in 1..s.headings |-> NoKey]
    /\ hi' = 1
    /\ pc' = "headings"
    /\ UNCHANGED <<s, captureTimeline, nowMin, headings, openByHeading, intervals,
                   kpis, errorMsg, runNo, firstRun>>
    /\ UNCHANGED <<evVars, seqVars, calVars, pbVars>>

\* The stage shown on the timeline is written back to the heading.
HeadingStepShown ==
    /\ pc = "headings"
    /\ LET r == advanceHeadingByTick(headings[hi], nowMin, s.tickMin, s, avail)
           tl == IF captureTimeline
                 THEN captureStep([open |-> openByHeading, intervals |-> intervals],
                                  hi, headings[hi].stage, r, nowMin, s.tickMin, s)
                 ELSE [open |-> openByHeading, intervals |-> intervals]
       IN /\ headings' = [headings EXCEPT
                            ![hi] = IF captureTimeline
                                    THEN [r.h EXCEPT !.stage = displayOf(headings[hi].stage, r, s).stage]
                                    ELSE r.h]
          /\ avail' = r.avail
          /\ tickWork' = [tickWork EXCEPT ![hi] = r.used]
          /\ openByHeading' = tl.open
          /\ intervals' = tl.intervals
    /\ IF hi < s.headings
       THEN hi' = hi + 1 /\ UNCHANGED <<pc, nowMin>>
       ELSE hi' = 0 /\ pc' = "loop" /\ nowMin' = nowMin + s.tickMin
    /\ UNCHANGED <<s, captureTimeline, kpis, errorMsg, runNo, firstRun>>
    /\ UNCHANGED <<evVars, seqVars, calVars, pbVars>>

\* Lines 162-188: one heading's turn in the tick; after the last heading the
\* clock moves on by tickMin.
HeadingStep ==
    /\ pc = "headings"
    /\ LET r == advanceHeadingByTick(headings[hi], nowMin, s.tickMin, s, avail)
           tl == IF captureTimeline
                 THEN captureStep([open |-> openByHeading, intervals |-> intervals],
                                  hi, headings[hi].stage, r, nowMin, s.tickMin, s)
                 ELSE [open |-> openByHeading, intervals |-> intervals]
       IN /\ headings' = [headings EXCEPT ![hi] = r.h]
          /\ avail' = r.avail
          /\ tickWork' = [tickWork EXCEPT ![hi] = r.used]
          /\ openByHeading' = tl.open
          /\ intervals' = tl.intervals
    /\ IF hi < s.headings
       THEN hi' = hi + 1 /\ UNCHANGED <<pc, nowMin>>
       ELSE hi' = 0 /\ pc' = "loop" /\ nowMin' = nowMin + s.tickMin
    /\ UNCHANGED <<s, captureTimeline, kpis, errorMsg, runNo, firstRun>>
    /\ UNCHANGED <<evVars, seqVars, calVars, pbVars>>

\* Lines 191-209: the timeline is closed, the KPIs computed, progress asserted.
RunEngineFinish ==
    /\ pc = "loop"
    /\ ~(nowMin < simMinutesOf(s))
    /\ intervals' = IF captureTimeline THEN closeAll(intervals, openByHeading, 1, s)
                    ELSE intervals
    /\ kpis' = computeKpis(headings, s, simMinutesOf(s))
    /\ errorMsg' = IF assertSimulationProgress(s, headings) = "ok" THEN "none"
                   ELSE assertSimulationProgress(s, headings)
    /\ pc' = IF assertSimulationProgress(s, headings) = "ok" THEN "done" ELSE "error"
    /\ UNCHANGED <<s, captureTimeline, nowMin, hi, headings, avail, openByHeading,
                   tickWork, runNo, firstRun>>
    /\ UNCHANGED <<evVars, seqVars, calVars, pbVars>>

(***************************************************************************)
(* The scenarios the runs start from.                                      *)
(***************************************************************************)
Scn(simDays, tickMin, nH, mpr, workable, sched, blast, drill, charge, muck, support, hasRes, res, jumbo) ==
    [simDays |-> simDays, tickMin |-> tickMin, headings |-> nH, metresPerRound |-> mpr,
     shift |-> [shiftDurationMin |-> workable, blastTiming |-> blast,
                scheduledShiftMin |-> sched],
     durations |-> [drill |-> drill, charge |-> charge, muck |-> muck, support |-> support],
     hasResources |-> hasRes, resources |-> res,
     support |-> [jumboBolting |-> jumbo]]

BlastTimings == {"midshift", "endOfShift"}

\* Headings contending for the pools: every capacity from 0 up.
ContentionScenarios ==
    { Scn(1, 60, nH, 3, 420, 480, blast, 120, 60, 120, support, TRUE, res, jumbo) :
        nH \in 1..MaxHeadings, blast \in BlastTimings, support \in {0, 60},
        res \in [ResourceKeys -> 0..MaxCap], jumbo \in BOOLEAN }

\* Ticks, durations, shift shapes and horizons; default capacities.
TimingScenarios ==
    { Scn(simDays, tickMin, nH, 4, sh[1], sh[2], blast, drill, 60, muck, support,
          FALSE, NoPool, FALSE) :
        simDays \in 1..MaxSimDays, tickMin \in {30, 60, 100}, nH \in 1..MaxHeadings,
        sh \in {<<480, 480>>, <<420, 480>>, <<480, 0>>}, blast \in BlastTimings,
        drill \in {90, 180, 1500}, muck \in {120, 240}, support \in {0, 60} }

\* The worked example: one heading, 180/60/240, no support, 3 m per round.
ExampleScenarios ==
    { Scn(1, tickMin, 1, 3, 480, 480, blast, 180, 60, 240, 0, FALSE, NoPool, FALSE) :
        tickMin \in {1, 5, 10, 15, 30}, blast \in BlastTimings }

BaseScenario == Scn(1, 60, 2, 3, 420, 480, "midshift", 120, 60, 120, 60, TRUE,
                    [k \in ResourceKeys |-> 1], FALSE)

\* One field of the base scenario off its range.
OddScenarios ==
    { [BaseScenario EXCEPT !.simDays = 0],
      [BaseScenario EXCEPT !.tickMin = 0],
      [BaseScenario EXCEPT !.headings = 0],
      [BaseScenario EXCEPT !.metresPerRound = 0],
      [BaseScenario EXCEPT !.shift.shiftDurationMin = 0],
      [BaseScenario EXCEPT !.shift.blastTiming = "never"],
      [BaseScenario EXCEPT !.shift.scheduledShiftMin = 360],
      [BaseScenario EXCEPT !.durations.drill = -60],
      [BaseScenario EXCEPT !.durations.charge = -60],
      [BaseScenario EXCEPT !.durations.muck = -60],
      [BaseScenario EXCEPT !.durations.support = -60],
      [BaseScenario EXCEPT !.resources.drillRigs = -1],
      [BaseScenario EXCEPT !.resources.lhds = -1],
      [BaseScenario EXCEPT !.resources.supportCrews = -1],
      [BaseScenario EXCEPT !.resources.blastCrews = -1] }

\* One rig and one blast crew among more headings, a long charge: a heading
\* is ready to blast while the crew is charging another heading.
CrewScenarios ==
    { Scn(1, 60, MaxHeadings + 1, 3, 480, 480, blast, 60, 120, 60, 0, TRUE,
          [drillRigs |-> 1, lhds |-> 2, supportCrews |-> 1, blastCrews |-> 1], FALSE) :
        blast \in BlastTimings }

\* One more heading than MaxHeadings, one unit of every resource, and a
\* charge as long as the rest of the cycle.
LongChargeScenarios ==
    { Scn(1, 60, MaxHeadings + 1, 3, 480, 480, "midshift", 60, 240, 60, 0, TRUE,
          [drillRigs |-> 1, lhds |-> 1, supportCrews |-> 1, blastCrews |-> 1], FALSE) }

Scenarios == ContentionScenarios \cup TimingScenarios \cup ExampleScenarios
                \cup OddScenarios \cup CrewScenarios \cup LongChargeScenarios

NoRun == [pc |-> "none"]

\* The event-dispatch engine is not running.
EvIdle ==
    /\ scenario = [name |-> ""]
    /\ options = [simDays |-> 0]
    /\ epc = "idle"
    /\ pools = <<>>
    /\ headingTime = <<>>
    /\ headingReentryAllowedAt = <<>>
    /\ headingRoundIndex = <<>>
    /\ headingStageIndex = <<>>
    /\ runs = <<>>
    /\ roundsCompletedTotal = 0
    /\ result = [simDays |-> 0]
    /\ thrown = "none"

\* The sequential engine is not running.
SeqIdle == seqHeading = 0 /\ roundIndex = 0

\* The calendar helpers are not being applied on their own.
NoArgs == [tMin |-> 0]
CalIdle == calArgs = NoArgs /\ calOut = NoArgs

\* No blast is deferred.
PbIdle == pendingBlasts = <<>>

Init ==
    /\ s \in Scenarios
    /\ captureTimeline \in BOOLEAN
    /\ pc = "start"
    /\ nowMin = 0
    /\ hi = 0
    /\ headings = <<>>
    /\ avail = NoPool
    /\ openByHeading = <<>>
    /\ intervals = <<>>
    /\ kpis = NoKpis
    /\ errorMsg = "none"
    /\ tickWork = <<>>
    /\ runNo = 1
    /\ firstRun = NoRun
    /\ EvIdle
    /\ SeqIdle
    /\ CalIdle
    /\ PbIdle

Next == RunEngineStart \/ TickBegin \/ HeadingStep \/ RunEngineFinish

Spec == Init /\ [][Next]_vars

\* The caller runs the same scenario a second time: the outcome of the first
\* run is kept aside and runEngine is entered again.
RunAgain ==
    /\ pc \in {"done", "error"}
    /\ runNo = 1
    /\ firstRun' = [pc |-> pc, kpis |-> kpis, intervals |-> intervals, errorMsg |-> errorMsg]
    /\ runNo' = 2
    /\ pc' = "start"
    /\ UNCHANGED <<s, captureTimeline, nowMin, hi, headings, avail, openByHeading,
                   intervals, kpis, errorMsg, tickWork>>
    /\ UNCHANGED <<evVars, seqVars, calVars, pbVars>>

NextTwice == RunEngineStart \/ TickBegin \/ HeadingStep \/ RunEngineFinish \/ RunAgain

SpecTwice == Init /\ [][NextTwice]_vars

\* The caller runs the scenario again with blasting put off to the end of the
\* shift, the first run's outcome kept aside.
RunEndOfShift ==
    /\ pc \in {"done", "error"}
    /\ runNo = 1
    /\ s' = [s EXCEPT !.shift.blastTiming = "endOfShift"]
    /\ firstRun' = [pc |-> pc, kpis |-> kpis, intervals |-> intervals, errorMsg |-> errorMsg]
    /\ runNo' = 2
    /\ pc' = "start"
    /\ UNCHANGED <<captureTimeline, nowMin, hi, headings, avail, openByHeading,
                   intervals, kpis, errorMsg, tickWork>>
    /\ UNCHANGED <<evVars, seqVars, calVars, pbVars>>

\* One scenario run under midshift blasting, then under end-of-shift blasting.
InitMidshift ==
    /\ Init
    /\ s \in ExampleScenarios \cup TimingScenarios
    /\ s.shift.blastTiming = "midshift"
    /\ ~captureTimeline

NextBothTimings ==
    RunEngineStart \/ TickBegin \/ HeadingStep \/ RunEngineFinish \/ RunEndOfShift

SpecBothTimings == InitMidshift /\ [][NextBothTimings]_vars

(***************************************************************************)
(* The back-compat wrapper (simulate.ts 68-75, 464-530): a legacy scenario *)
(* and legacy options are normalised into a Scenario and handed to         *)
(* runEngine.  A field that may be missing is a sequence: <<>> when        *)
(* missing, <<v>> when it holds v.  The legacy scenario is held in         *)
(* scenario, the legacy options in options.                                *)
(***************************************************************************)
RECURSIVE pickNumber(_)
pickNumber(vals) ==
    IF vals = <<>> THEN <<>>
    ELSE IF Head(vals) # <<>> THEN Head(vals)
    ELSE pickNumber(Tail(vals))

\* a ?? b
orElse(opt, dflt) == IF opt = <<>> THEN dflt ELSE opt[1]

normalizeBlastTiming(v) ==
    IF v = <<>> THEN "endOfShift"
    ELSE IF v[1] \in {"midshift", "endOfShift"} THEN v[1]
    ELSE IF v[1] \in {"IMMEDIATE", "immediate"} THEN "midshift"
    ELSE "endOfShift"

\* The source's default advance is 3.8 m per round; metres are whole numbers
\* here and every legacy scenario drawn below carries metresPerRound.
DefaultMetresPerRound == 4

normalizeScenarioForEngine(input, legacyOptions) ==
    LET shiftSrc == orElse(input.shift, [shiftDurationMin |-> <<>>, blastTiming |-> <<>>,
                                          scheduledShiftMin |-> <<>>])
        durationsSrc == orElse(input.durations, [drill |-> <<>>, charge |-> <<>>,
                                                  muck |-> <<>>, support |-> <<>>])
        rawBlast == IF shiftSrc.blastTiming # <<>> THEN shiftSrc.blastTiming
                    ELSE IF input.blastTiming # <<>> THEN input.blastTiming
                    ELSE input.policy
        shiftDurationMin ==
            orElse(pickNumber(<<shiftSrc.shiftDurationMin, input.shiftDurationMin>>),
                   IF input.hoursPerShift # <<>> THEN input.hoursPerShift[1] * 60 ELSE 480)
        nH == orElse(pickNumber(<<input.headings, input.numHeadings>>), 2)
        resourcesSrc == orElse(input.resources, [drillRigs |-> <<>>, lhds |-> <<>>,
                                                  supportCrews |-> <<>>, blastCrews |-> <<>>])
        scheduledShiftMin ==
            IF legacyOptions.hasHoursPerShift /\ legacyOptions.hoursPerShift > 0
            THEN legacyOptions.hoursPerShift * 60
            ELSE orElse(pickNumber(<<shiftSrc.scheduledShiftMin, input.scheduledShiftMin>>),
                        shiftDurationMin)
    IN  [simDays |-> orElse(pickNumber(<<input.simDays, input.days>>), 30),
         tickMin |-> orElse(pickNumber(<<input.tickMin, input.dtMin>>), 5),
         headings |-> nH,
         metresPerRound |-> orElse(pickNumber(<<input.metresPerRound>>), DefaultMetresPerRound),
         shift |-> [shiftDurationMin |-> shiftDurationMin,
                    blastTiming |-> normalizeBlastTiming(rawBlast),
                    scheduledShiftMin |-> scheduledShiftMin],
         durations |->
            [drill   |-> orElse(pickNumber(<<durationsSrc.drill, input.drill>>), 180),
             charge  |-> orElse(pickNumber(<<durationsSrc.charge, input.charge>>), 60),
             muck    |-> orElse(pickNumber(<<durationsSrc.muck, input.muck>>), 240),
             support |-> orElse(pickNumber(<<durationsSrc.support>>), 0)],
         hasResources |-> TRUE,
         resources |->
            [drillRigs    |-> orElse(pickNumber(<<resourcesSrc.drillRigs, input.drillRigs>>), nH),
             lhds         |-> orElse(pickNumber(<<resourcesSrc.lhds, input.lhds>>), nH),
             supportCrews |-> orElse(pickNumber(<<resourcesSrc.supportCrews>>), nH),
             blastCrews   |-> orElse(pickNumber(<<resourcesSrc.blastCrews>>), 1)],
         support |-> [jumboBolting |-> input.jumboBolting = <<TRUE>>]]

\* simulateScenario of simulate.ts: normalise, then simulateDetailed or simulate.
LegacySimulateScenario ==
    /\ pc = "wrapper"
    /\ s' = normalizeScenarioForEngine(scenario, options)
    /\ captureTimeline' = (options.includeGantt \/ options.includeTimeline)
    /\ pc' = "start"
    /\ UNCHANGED <<nowMin, hi, headings, avail, openByHeading, intervals, kpis, errorMsg,
                   tickWork, runNo, firstRun>>
    /\ UNCHANGED <<scenario, options, epc, pools, headingTime, headingReentryAllowedAt,
                   headingRoundIndex, headingStageIndex, runs, roundsCompletedTotal,
                   result, thrown>>
    /\ UNCHANGED <<seqVars, calVars, pbVars>>

NoFields ==
    [simDays |-> <<>>, days |-> <<>>, tickMin |-> <<>>, dtMin |-> <<>>, headings |-> <<>>,
     numHeadings |-> <<>>, metresPerRound |-> <<>>, shift |-> <<>>, durations |-> <<>>,
     blastTiming |-> <<>>, policy |-> <<>>, shiftDurationMin |-> <<>>,
     scheduledShiftMin |-> <<>>, hoursPerShift |-> <<>>, resources |-> <<>>,
     drill |-> <<>>, charge |-> <<>>, muck |-> <<>>, drillRigs |-> <<>>, lhds |-> <<>>,
     jumboBolting |-> <<>>]

\* Legacy scenarios: with and without a horizon, durations and capacities of
\* their own; the step is an hour.
LegacyScenarios ==
    { [NoFields EXCEPT !.simDays = simDays, !.tickMin = <<60>>, !.headings = <<nH>>,
                       !.metresPerRound = <<3>>, !.policy = <<"IMMEDIATE">>,
                       !.durations = durs, !.resources = res] :
        simDays \in {<<>>} \cup {<<d>> : d \in 1..MaxSimDays},
        nH \in 1..MaxHeadings,
        durs \in {<<>>, <<[drill |-> <<120>>, charge |-> <<60>>, muck |-> <<120>>,
                          support |-> <<>>]>>},
        res \in {<<>>, <<[drillRigs |-> <<MaxCap>>, lhds |-> <<MaxCap>>,
                         supportCrews |-> <<>>, blastCrews |-> <<>>]>>} }

\* Legacy scenarios that name their fields the old way.
LegacyAliased ==
    { [NoFields EXCEPT !.days = <<1>>, !.dtMin = <<60>>, !.numHeadings = <<nH>>,
                       !.metresPerRound = <<3>>, !.blastTiming = <<blast>>,
                       !.hoursPerShift = <<8>>, !.drill = <<120>>, !.charge = <<60>>,
                       !.muck = <<120>>, !.drillRigs = <<1>>, !.lhds = <<1>>,
                       !.jumboBolting = <<TRUE>>] :
        nH \in 1..MaxHeadings, blast \in {"midshift", "end", "immediate"} }

LegacyOpt(simDays, hours, recordRuns, includeGantt, includeTimeline, res) ==
    [simDays |-> simDays, hasHoursPerShift |-> hours > 0, hoursPerShift |-> hours, recordRuns |-> recordRuns, includeGantt |-> includeGantt, includeTimeline |-> includeTimeline, resources |-> res]

\* The options the callers pass: a horizon, the shift hours, the capacities
\* and one of the ways of asking for a timeline, or none.
LegacyOptions ==
    { LegacyOpt(simDays, hours, rec[1], rec[2], rec[3], [k \in {"drillRigs", "lhds", "chargingCrews", "supportCrews"} |-> 1]) :
        simDays \in 1..(MaxSimDays + 1), hours \in {0, 8},
        rec \in {<<FALSE, FALSE, FALSE>>, <<TRUE, FALSE, FALSE>>,
                 <<FALSE, TRUE, FALSE>>, <<FALSE, FALSE, TRUE>>} }

NoScenario == [simDays |-> 0]

InitLegacy ==
    /\ scenario \in LegacyScenarios \cup LegacyAliased
    /\ options \in LegacyOptions
    /\ s = NoScenario
    /\ captureTimeline = FALSE
    /\ pc = "wrapper"
    /\ nowMin = 0
    /\ hi = 0
    /\ headings = <<>>
    /\ avail = NoPool
    /\ openByHeading = <<>>
    /\ intervals = <<>>
    /\ kpis = NoKpis
    /\ errorMsg = "none"
    /\ tickWork = <<>>
    /\ runNo = 1
    /\ firstRun = NoRun
    /\ epc = "idle"
    /\ pools = <<>>
    /\ headingTime = <<>>
    /\ headingReentryAllowedAt = <<>>
    /\ headingRoundIndex = <<>>
    /\ headingStageIndex = <<>>
    /\ runs = <<>>
    /\ roundsCompletedTotal = 0
    /\ result = [simDays |-> 0]
    /\ thrown = "none"
    /\ SeqIdle
    /\ CalIdle
    /\ PbIdle

NextLegacy ==
    LegacySimulateScenario \/ RunEngineStart \/ TickBegin \/ HeadingStep \/ RunEngineFinish

SpecLegacy == InitLegacy /\ [][NextLegacy]_vars

(***************************************************************************)
(* Properties of the tick engine.                                          *)
(***************************************************************************)
Valid == validateScenario(s) = "ok"
Returned == pc = "done"
Ended == pc \in {"done", "error"}
Deadlocked == pc = "error" /\ Valid /\ errorMsg = assertSimulationProgressText

\* The capacity the scenario configures for a resource kind.
ConfiguredCap(k) ==
    IF s.hasResources THEN s.resources[k]
    ELSE IF k = "blastCrews" THEN 1 ELSE s.headings

WorkedWith(k) == {i \in DOMAIN tickWork : tickWork[i] = k}

\* C1: in every tick, for every resource kind, the headings that worked with
\* a unit of that kind are at most its configured capacity; the pool starts
\* the tick at the configured capacity, every working heading takes exactly
\* one unit, and no available count is ever negative.
C1_PoolNeverOverdrawn ==
    (pc = "headings" \/ (Valid /\ nowMin > 0)) =>
        \A k \in ResourceKeys :
            /\ avail[k] >= 0
            /\ Cardinality(WorkedWith(k)) <= ConfiguredCap(k)
            /\ avail[k] = ConfiguredCap(k) - Cardinality(WorkedWith(k))

\* C1 witness: the only drill rig is taken and a later heading in DRILL was
\* turned away in the same tick.
C1_Witness ==
    /\ pc = "loop"
    /\ nowMin > 0
    /\ s.headings = 2
    /\ ConfiguredCap("drillRigs") = 1
    /\ tickWork[1] = "drillRigs"
    /\ tickWork[2] = NoKey
    /\ headings[2].stage = "DRILL"
    /\ avail.drillRigs = 0


HeadingIntervals(i) == SelectSeq(intervals, LAMBDA iv : iv.headingId = i)

TimelineComplete(i) ==
    LET q == HeadingIntervals(i)
    IN /\ Len(q) > 0
       /\ q[1].startMin = 0
       /\ q[Len(q)].endMin = simMinutesOf(s)
       /\ \A j \in 1..(Len(q) - 1) : q[j].endMin = q[j + 1].startMin
       /\ \A j \in 1..Len(q) :
            0 <= q[j].startMin /\ q[j].startMin <= q[j].endMin
                /\ q[j].endMin <= simMinutesOf(s)

\* C3 (as claimed): for every accepted scenario, whatever tickMin > 0, the
\* intervals returned for each heading are contiguous, do not overlap, begin
\* at minute 0 and end at simMinutes.
C3_TimelineSpansHorizon ==
    (Returned /\ captureTimeline) => \A i \in 1..s.headings : TimelineComplete(i)

IntervalSet == {intervals[j] : j \in DOMAIN intervals}

\* The headings whose interval covering minute t shows a work stage using k.
ShownUsing(k, t) ==
    {i \in 1..s.headings :
        \E iv \in IntervalSet :
            /\ iv.headingId = i
            /\ iv.startMin <= t /\ t < iv.endMin
            /\ resourceForWorkStage(iv.stage, s) = k}

\* C4 (as claimed): at every instant of the returned timeline, the headings
\* shown in a work stage that uses a resource kind are at most that kind's
\* configured capacity.  (The shown stage changes only where an interval
\* starts, so these instants decide it.)
C4_TimelineWithinCapacity ==
    (Returned /\ captureTimeline) =>
        \A iv \in IntervalSet : \A k \in ResourceKeys :
            (0 <= iv.startMin /\ iv.startMin < simMinutesOf(s)) =>
                Cardinality(ShownUsing(k, iv.startMin)) <= ConfiguredCap(k)

EveryKindResourced == \A k \in ResourceKeys : ConfiguredCap(k) >= 1

NeededKinds ==
    {"drillRigs", "blastCrews", "lhds"}
        \cup (IF s.durations.support > 0 THEN {resourceForWorkStage("SUPPORT", s)} ELSE {})

\* C7 (as claimed): an accepted scenario of at least a day in which a needed
\* resource kind has capacity 0 ends in the deadlock error.
C7_ZeroCapacityIsDeadlock ==
    (Ended /\ Valid /\ s.simDays >= 1 /\ \E k \in NeededKinds : ConfiguredCap(k) = 0) =>
        Deadlocked

DurationMessages ==
    {"durations.drill is missing/invalid", "durations.charge is missing/invalid",
     "durations.muck is missing/invalid"}

\* C8 (as claimed): a scenario with a negative drill, charge or muck duration
\* is rejected before any tick, with an error naming the duration.
C8_NegativeDurationRejected ==
    (pc # "start" /\ (s.durations.drill < 0 \/ s.durations.charge < 0 \/ s.durations.muck < 0)) =>
        (pc = "error" /\ nowMin = 0 /\ headings = <<>> /\ errorMsg \in DurationMessages)

IsExample ==
    /\ s.headings = 1
    /\ s.durations = [drill |-> 180, charge |-> 60, muck |-> 240, support |-> 0]
    /\ s.metresPerRound = 3
    /\ s.shift.blastTiming = "midshift"
    /\ ~s.hasResources
    /\ s.simDays = 1
    /\ s.tickMin \in {1, 5, 10, 15, 30}

\* C10: the worked example returns 2 completed rounds and 6 metres for each
\* of the tick sizes 1, 5, 10, 15 and 30.
C10_ExampleTwoRounds ==
    (IsExample /\ Ended) =>
        (Returned /\ kpis.roundsCompletedTotal = 2 /\ kpis.metresAdvancedTotal = 6)

\* C10 witness: the example has run to the end at one-minute ticks.
C10_Witness ==
    /\ IsExample
    /\ s.tickMin = 1
    /\ ~captureTimeline
    /\ Returned
    /\ nowMin = 1440
    /\ kpis.roundsCompletedTotal = 2

\* C11: the worked example (one heading, 180/60/240, no support, one day,
\* 5-minute ticks, workable shift = scheduled shift = 480) completes strictly
\* fewer rounds under end-of-shift blasting than under midshift blasting.
C11_EndOfShiftFewerRounds ==
    (runNo = 2 /\ Ended /\ s.tickMin = 5 /\ s \in ExampleScenarios) =>
        /\ Returned
        /\ s.shift.blastTiming = "endOfShift"
        /\ firstRun.pc = "done"
        /\ kpis.roundsCompletedTotal < firstRun.kpis.roundsCompletedTotal

\* C11 witness: the example returned 2 rounds under midshift blasting and has
\* now returned 1 under end-of-shift blasting.
C11_Witness ==
    /\ runNo = 2
    /\ Returned
    /\ s.tickMin = 5
    /\ s \in ExampleScenarios
    /\ s.shift.blastTiming = "endOfShift"
    /\ firstRun.kpis.roundsCompletedTotal = 2
    /\ kpis.roundsCompletedTotal = 1

\* What the timeline shows for heading i at minute t, once the tick that
\* starts at t has run: the closed interval covering t, or else the open one.
ShownAt(i, t) ==
    LET covering == {iv \in IntervalSet :
                        iv.headingId = i /\ iv.startMin <= t /\ t < iv.endMin}
    IN IF covering # {}
       THEN LET iv == CHOOSE x \in covering : TRUE
            IN [stage |-> iv.stage, waitFor |-> iv.waitFor]
       ELSE [stage |-> openByHeading[i].stage, waitFor |-> openByHeading[i].waitFor]

\* A tick has just run with two headings on one drill rig, the timeline recorded.
TwoOnOneRig ==
    /\ pc = "loop" /\ nowMin > 0
    /\ captureTimeline
    /\ s.headings = 2
    /\ s.durations.drill > 0
    /\ ConfiguredCap("drillRigs") = 1

\* Heading i stayed in DRILL through the last tick without the rig.
BlockedInDrill(i) == headings[i].stage = "DRILL" /\ tickWork[i] = NoKey

\* Of two headings in DRILL, one drills in the tick and the other does not.
OneDrillsPerTick ==
    TwoOnOneRig =>
        /\ Cardinality(WorkedWith("drillRigs")) <= 1
        /\ \A i \in 1..2 : BlockedInDrill(i) => tickWork[3 - i] = "drillRigs"

\* C12 (as claimed): with two headings and one drill rig, exactly one heading
\* drills per tick while both are in DRILL, and the timeline shows the other
\* heading as WAITING_FOR_RESOURCE (waitFor drillRigs) in exactly the ticks in
\* which it was blocked: blocked in the tick at t means shown waiting at t, and
\* drilling in the tick at t means shown in a work stage at t.
C12_WaitingShownWhileBlocked ==
    /\ OneDrillsPerTick
    /\ TwoOnOneRig =>
         \A i \in 1..2 :
            LET shown == ShownAt(i, nowMin - s.tickMin)
            IN /\ BlockedInDrill(i) =>
                    (shown.stage = "WAITING_FOR_RESOURCE" /\ shown.waitFor = "drillRigs")
               /\ tickWork[i] = "drillRigs" => shown.stage # "WAITING_FOR_RESOURCE"

\* Heading i fired its blast in the tick that has just run: under midshift
\* blasting it stands at the start of its re-entry wait.
BlastedThisTick(i) ==
    headings[i].stage = "REENTRY" /\ headings[i].remainingMin = REENTRY_MIN_MIDSHIFT

\* C15 (as claimed): under blast-at-will (midshift) blasting, when a heading
\* blasts, every other heading does no work in the hour that follows: in the
\* tick of the blast (ticks of at most 60 minutes lie inside that hour) no
\* other heading works a stage or accrues busy minutes.
C15_OthersPauseAfterBlast ==
    (pc = "loop" /\ nowMin > 0 /\ s \in ContentionScenarios \cup TimingScenarios
        /\ s.shift.blastTiming = "midshift" /\ s.tickMin <= 60) =>
        \A i \in DOMAIN headings : \A j \in DOMAIN headings :
            (i # j /\ BlastedThisTick(i)) => tickWork[j] = NoKey

\* C16 (as claimed): for every accepted scenario, whatever tickMin > 0, each
\* heading's busyMin is at most simMinutes and the returned headingUtilization
\* (a quotient, kept as numerator over denominator) lies in [0, 1].
C16_UtilizationInUnitRange ==
    (Valid /\ s \in TimingScenarios \cup ContentionScenarios \cup ExampleScenarios) =>
        /\ \A i \in DOMAIN headings : headings[i].busyMin <= simMinutesOf(s)
        /\ Returned =>
              /\ 0 <= kpis.headingUtilization.num
              /\ kpis.headingUtilization.num <= kpis.headingUtilization.den

(***************************************************************************)
(* The event-dispatch engine (App.tsx 824-1318).                           *)
(* Headings are numbered from 1 here (the code's headingIndex + 1), and so *)
(* are stage indices and resource units.                                   *)
(***************************************************************************)
MIN_PER_HOUR == 60
MIN_PER_DAY == 24 * MIN_PER_HOUR

EvResourceKeys == {"DRILL_RIG", "LHD", "CHARGING_CREW", "SUPPORT_CREW"}

(***************************************************************************)
(* Shift calendar (App.tsx 959-1057).                                      *)
(***************************************************************************)
dayIndex(tMin) == tMin \div MIN_PER_DAY

withinDay(tMin) == tMin - dayIndex(tMin) * MIN_PER_DAY

shiftIndexWithinDay(within, shiftMinutes) == within \div shiftMinutes

isWithinScheduledShifts(within, shiftMinutes, shiftsPerDay) ==
    within >= 0 /\ within < shiftsPerDay * shiftMinutes

shiftEndTime(tMin, shiftMinutes, shiftsPerDay) ==
    LET d == dayIndex(tMin)
        w == withinDay(tMin)
    IN IF ~isWithinScheduledShifts(w, shiftMinutes, shiftsPerDay)
       THEN (d + 1) * MIN_PER_DAY + shiftMinutes
       ELSE d * MIN_PER_DAY + (shiftIndexWithinDay(w, shiftMinutes) + 1) * shiftMinutes

nextShiftBoundary(tMin, shiftMinutes, shiftsPerDay) ==
    LET d == dayIndex(tMin)
        w == withinDay(tMin)
    IN IF ~isWithinScheduledShifts(w, shiftMinutes, shiftsPerDay)
       THEN (d + 1) * MIN_PER_DAY
       ELSE LET start == d * MIN_PER_DAY + shiftIndexWithinDay(w, shiftMinutes) * shiftMinutes
                next == start + shiftMinutes
            IN IF tMin = start THEN tMin
               ELSE IF withinDay(next) >= shiftsPerDay * shiftMinutes
                    THEN (d + 1) * MIN_PER_DAY
                    ELSE next

normalizeToWorkingTime(tMin, shiftMinutes, shiftsPerDay) ==
    IF isWithinScheduledShifts(withinDay(tMin), shiftMinutes, shiftsPerDay) THEN tMin
    ELSE (dayIndex(tMin) + 1) * MIN_PER_DAY

fitStageIntoShift(tMin, durationMin, shiftMinutes, shiftsPerDay) ==
    LET t1 == normalizeToWorkingTime(tMin, shiftMinutes, shiftsPerDay)
        end == t1 + durationMin
        shiftEnd == shiftEndTime(t1, shiftMinutes, shiftsPerDay)
    IN IF end <= shiftEnd THEN t1
       ELSE nextShiftBoundary(shiftEnd, shiftMinutes, shiftsPerDay)

roundStartTime(tProposed, sc, shiftMinutes) ==
    LET tWorking == normalizeToWorkingTime(tProposed, shiftMinutes, sc.shiftsPerDay)
    IN IF sc.policy = "END_OF_SHIFT_ONLY"
       THEN nextShiftBoundary(tWorking, shiftMinutes, sc.shiftsPerDay)
       ELSE tWorking

(***************************************************************************)
(* Resource mapping and pools (App.tsx 1061-1126).                         *)
(***************************************************************************)
\* The keywords of inferResourceKey that the upper-cased stage id contains,
\* for the stage ids of the modelled scenarios.
KeywordsIn(stageId) ==
    CASE stageId = "DRILL"        -> {"DRILL"}
      [] stageId = "CHARGE"       -> {"CHARGE"}
      [] stageId = "MUCK"         -> {"MUCK"}
      [] stageId = "SUPPORT"      -> {"SUPPORT"}
      [] stageId = "BOLT"         -> {"BOLT"}
      [] stageId = "LHD_SUPPORT"  -> {"LHD", "SUPPORT"}
      [] OTHER                    -> {}

includes(stageId, word) == word \in KeywordsIn(stageId)

inferResourceKey(stageId) ==
    IF includes(stageId, "DRILL") THEN "DRILL_RIG"
    ELSE IF includes(stageId, "MUCK") \/ includes(stageId, "LHD") THEN "LHD"
    ELSE IF includes(stageId, "CHARGE") THEN "CHARGING_CREW"
    ELSE IF includes(stageId, "SUPPORT") \/ includes(stageId, "BOLT")
            \/ includes(stageId, "SHOT") THEN "SUPPORT_CREW"
    ELSE NoKey

getStageResourceKey(stage) ==
    IF stage.resourceKey \in {"DRILL_RIG", "LHD", "CHARGING_CREW"}
    THEN stage.resourceKey
    ELSE inferResourceKey(stage.id)

\* A capacity left out of options.resources reads as 0 (r.x ?? 0).
getCapacityFor(key, opts) ==
    CASE key = "DRILL_RIG"     -> opts.resources.drillRigs
      [] key = "LHD"           -> opts.resources.lhds
      [] key = "CHARGING_CREW" -> opts.resources.chargingCrews
      [] key = "SUPPORT_CREW"  -> opts.resources.supportCrews
      [] OTHER                 -> 0

NoCapacityText(key) ==
    CASE key = "DRILL_RIG"     -> "No capacity provided for resource DRILL_RIG."
      [] key = "LHD"           -> "No capacity provided for resource LHD."
      [] key = "CHARGING_CREW" -> "No capacity provided for resource CHARGING_CREW."
      [] OTHER                 -> "No capacity provided for resource SUPPORT_CREW."

\* A kind with no capacity is given one unit instead of an error.
ensurePoolOneUnit(ps, key, opts) ==
    IF key \in DOMAIN ps THEN [pools |-> ps, thrown |-> "none"]
    ELSE [pools |-> (key :> [key |-> key, avail |-> [u \in 1..Max(1, getCapacityFor(key, opts)) |-> 0],
                              busyMin |-> 0]) @@ ps,
          thrown |-> "none"]

\* ensurePool: the pools with the pool of `key` in place; `thrown` when the
\* capacity is missing or not positive.
ensurePool(ps, key, opts) ==
    IF key \in DOMAIN ps THEN [pools |-> ps, thrown |-> "none"]
    ELSE LET cap == getCapacityFor(key, opts)
         IN IF cap <= 0 THEN [pools |-> ps, thrown |-> NoCapacityText(key)]
            ELSE [pools |-> (key :> [key |-> key, avail |-> [u \in 1..cap |-> 0],
                                      busyMin |-> 0]) @@ ps,
                  thrown |-> "none"]

\* The unit that becomes available soonest, the lowest index among equals.
bestUnit(av) ==
    CHOOSE i \in DOMAIN av :
        /\ \A j \in DOMAIN av : av[i] <= av[j]
        /\ \A j \in DOMAIN av : (j < i) => (av[j] > av[i])

\* The unit is handed out at the time asked for, busy or not.
allocateAtOnce(ps, key, earliest) ==
    [start |-> earliest, unitIndex |-> bestUnit(ps[key].avail)]

\* allocate, on a pool that ensurePool has put in place.
allocate(ps, key, earliest) ==
    LET av == ps[key].avail
        bestIdx == bestUnit(av)
    IN [start |-> Max(earliest, av[bestIdx]), unitIndex |-> bestIdx]

release(ps, key, unitIndex, end, busyAdded) ==
    [ps EXCEPT ![key].avail[unitIndex] = end, ![key].busyMin = @ + busyAdded]

(***************************************************************************)
(* Main simulate (App.tsx 1131-1318).                                      *)
(***************************************************************************)
\* The message assertScenario throws, or "ok" (App.tsx 933-948).
RECURSIVE assertStages(_, _)
assertStages(stages, i) ==
    IF i > Len(stages) THEN "ok"
    ELSE IF stages[i].id = "" THEN "Stage.id is required"
    ELSE IF stages[i].name = "" THEN "Stage.name is required"
    ELSE IF stages[i].durationMin <= 0 THEN "Stage.durationMin must be > 0"
    ELSE assertStages(stages, i + 1)

assertScenario(sc) ==
    IF sc.name = "" THEN "Scenario.name is required"
    ELSE IF sc.headings <= 0 THEN "Scenario.headings must be > 0"
    ELSE IF sc.shiftsPerDay <= 0 THEN "Scenario.shiftsPerDay must be > 0"
    ELSE IF sc.advancePerRoundM <= 0 THEN "Scenario.advancePerRoundM must be > 0"
    ELSE IF Len(sc.stages) = 0 THEN "Scenario.stages must be a non-empty array"
    ELSE IF assertStages(sc.stages, 1) # "ok" THEN assertStages(sc.stages, 1)
    ELSE IF sc.reEntryDelayMin < 0 THEN "Scenario.reEntryDelayMin must be >= 0"
    ELSE IF sc.blastLockoutMin < 0 THEN "Scenario.blastLockoutMin must be >= 0"
    ELSE "ok"

\* options.hoursPerShift ?? 8
hoursPerShiftOf(opts) == IF opts.hasHoursPerShift THEN opts.hoursPerShift ELSE 8

\* The checks of lines 1132-1138: the message thrown, or "ok".
checkInputs(sc, opts) ==
    IF assertScenario(sc) # "ok" THEN assertScenario(sc)
    ELSE IF opts.simDays <= 0 THEN "options.simDays must be > 0"
    ELSE IF hoursPerShiftOf(opts) <= 0 THEN "options.hoursPerShift must be > 0"
    ELSE "ok"

\* The horizon taken an hour too long.
horizonMinOfLate(opts) == opts.simDays * MIN_PER_DAY + MIN_PER_HOUR

horizonMinOf(opts) == opts.simDays * MIN_PER_DAY
shiftMinutesOf(opts) == hoursPerShiftOf(opts) * MIN_PER_HOUR

\* Lines 1174-1202: heading h's next stage as a candidate, given the pools as
\* the scan has left them.  kind is "skip" (continue), "throw" or "cand".
\* A local of the code: `value` is computed once, like a const, and the rest
\* of the function reads it.
Bind(value, Rest(_)) == CHOOSE r \in {Rest(v) : v \in {value}} : TRUE

candidate(h, ps) ==
    LET si == headingStageIndex[h]
        st == scenario.stages[si]
        shiftMinutes == shiftMinutesOf(options)
        t0 == Max(headingTime[h], headingReentryAllowedAt[h])
        rKey == getStageResourceKey(st)
    IN Bind(IF si = 1 THEN roundStartTime(t0, scenario, shiftMinutes)
            ELSE normalizeToWorkingTime(t0, shiftMinutes, scenario.shiftsPerDay),
       LAMBDA t1 :
       IF t1 >= horizonMinOf(options)
       THEN [kind |-> "skip", pools |-> ps]
       ELSE
       Bind(IF rKey # NoKey THEN ensurePool(ps, rKey, options)
            ELSE [pools |-> ps, thrown |-> "none"],
       LAMBDA e :
       IF e.thrown # "none"
       THEN [kind |-> "throw", pools |-> ps, thrown |-> e.thrown]
       ELSE
       Bind(IF rKey # NoKey THEN allocate(e.pools, rKey, t1)
            ELSE [start |-> t1, unitIndex |-> 0],
       LAMBDA alloc :
       Bind(fitStageIntoShift(alloc.start, st.durationMin, shiftMinutes,
                              scenario.shiftsPerDay),
       LAMBDA t3 :
       IF t3 >= horizonMinOf(options) \/ t3 + st.durationMin > horizonMinOf(options)
       THEN [kind |-> "skip", pools |-> e.pools]
       ELSE [kind |-> "cand", pools |-> e.pools,
             best |-> [headingIndex |-> h, stageIndex |-> si, stage |-> st,
                       startMin |-> t3, resourceKey |-> rKey,
                       resourceUnitIndex |-> alloc.unitIndex]]))))

NoBest == [headingIndex |-> 0]

\* The candidate that starts latest is kept.
betterLatest(c, best) == best = NoBest \/ c.startMin > best.startMin

\* A candidate that starts no later than the best so far replaces it.
betterOrEqual(c, best) == best = NoBest \/ c.startMin <= best.startMin

\* Whether candidate c replaces the best found so far (line 1204).
better(c, best) == best = NoBest \/ c.startMin < best.startMin

\* Lines 1173-1214: the scan over the headings from h on.
RECURSIVE scan(_, _, _)
scan(h, ps, best) ==
    IF h > scenario.headings THEN [thrown |-> "none", pools |-> ps, best |-> best]
    ELSE Bind(candidate(h, ps),
         LAMBDA c :
         IF c.kind = "throw" THEN [thrown |-> c.thrown, pools |-> ps, best |-> best]
         ELSE IF c.kind = "skip" THEN scan(h + 1, c.pools, best)
         ELSE scan(h + 1, c.pools, IF better(c.best, best) THEN c.best ELSE best))

\* Lines 1132-1158.
SimulateScenarioStart ==
    /\ epc = "start"
    /\ IF checkInputs(scenario, options) # "ok"
       THEN /\ epc' = "error"
            /\ thrown' = checkInputs(scenario, options)
            /\ UNCHANGED <<pools, headingTime, headingReentryAllowedAt, headingRoundIndex,
                           headingStageIndex, runs, roundsCompletedTotal>>
       ELSE /\ epc' = "dispatch"
            /\ thrown' = "none"
            /\ runs' = <<>>
            /\ pools' = <<>>
            /\ headingTime' = [h \in 1..scenario.headings |-> 0]
            /\ headingReentryAllowedAt' = [h \in 1..scenario.headings |-> 0]
            /\ headingRoundIndex' = [h \in 1..scenario.headings |-> 0]
            /\ headingStageIndex' = [h \in 1..scenario.headings |-> 1]
            /\ roundsCompletedTotal' = 0
    /\ UNCHANGED <<scenario, options, result>>
    /\ UNCHANGED <<tickVars, seqVars, calVars, pbVars>>

\* The commit without the blast lockout: a blast leaves the heading's
\* re-entry time as it was.
commitStageNoLockout(ps, best, h, st, endMin, roundDone) ==
    /\ runs' = IF options.recordRuns
               THEN Append(runs, [headingIndex |-> h,
                                  roundIndex |-> headingRoundIndex[h],
                                  stageId |-> st.id, startMin |-> best.startMin,
                                  endMin |-> endMin, isBlast |-> st.isBlast,
                                  resourceKey |-> best.resourceKey,
                                  resourceUnitIndex |-> best.resourceUnitIndex])
               ELSE runs
    /\ pools' = IF best.resourceKey # NoKey
                THEN release(ps, best.resourceKey, best.resourceUnitIndex,
                             endMin, st.durationMin)
                ELSE ps
    /\ headingReentryAllowedAt' = headingReentryAllowedAt
    /\ headingTime' = [headingTime EXCEPT ![h] = endMin]
    /\ headingStageIndex' = [headingStageIndex EXCEPT
                               ![h] = IF roundDone THEN 1 ELSE @ + 1]
    /\ headingRoundIndex' = [headingRoundIndex EXCEPT
                               ![h] = IF roundDone THEN @ + 1 ELSE @]
    /\ roundsCompletedTotal' = IF roundDone THEN roundsCompletedTotal + 1
                               ELSE roundsCompletedTotal

\* The commit that leaves the heading's clock where it was.
commitStageNoClock(ps, best, h, st, endMin, roundDone) ==
    /\ runs' = IF options.recordRuns
               THEN Append(runs, [headingIndex |-> h,
                                  roundIndex |-> headingRoundIndex[h],
                                  stageId |-> st.id, startMin |-> best.startMin,
                                  endMin |-> endMin, isBlast |-> st.isBlast,
                                  resourceKey |-> best.resourceKey,
                                  resourceUnitIndex |-> best.resourceUnitIndex])
               ELSE runs
    /\ pools' = IF best.resourceKey # NoKey
                THEN release(ps, best.resourceKey, best.resourceUnitIndex,
                             endMin, st.durationMin)
                ELSE ps
    /\ headingReentryAllowedAt' =
          IF st.isBlast
          THEN [headingReentryAllowedAt EXCEPT
                  ![h] = Max(@, endMin + scenario.reEntryDelayMin
                                       + scenario.blastLockoutMin)]
          ELSE headingReentryAllowedAt
    /\ headingTime' = headingTime
    /\ headingStageIndex' = [headingStageIndex EXCEPT
                               ![h] = IF roundDone THEN 1 ELSE @ + 1]
    /\ headingRoundIndex' = [headingRoundIndex EXCEPT
                               ![h] = IF roundDone THEN @ + 1 ELSE @]
    /\ roundsCompletedTotal' = IF roundDone THEN roundsCompletedTotal + 1
                               ELSE roundsCompletedTotal

\* Lines 1218-1259: commit the chosen stage `st` of heading h, ending at endMin.
commitStage(ps, best, h, st, endMin, roundDone) ==
    /\ runs' = IF options.recordRuns
               THEN Append(runs, [headingIndex |-> h,
                                  roundIndex |-> headingRoundIndex[h],
                                  stageId |-> st.id, startMin |-> best.startMin,
                                  endMin |-> endMin, isBlast |-> st.isBlast,
                                  resourceKey |-> best.resourceKey,
                                  resourceUnitIndex |-> best.resourceUnitIndex])
               ELSE runs
    /\ pools' = IF best.resourceKey # NoKey
                THEN release(ps, best.resourceKey, best.resourceUnitIndex,
                             endMin, st.durationMin)
                ELSE ps
    /\ headingReentryAllowedAt' =
          IF st.isBlast
          THEN [headingReentryAllowedAt EXCEPT
                  ![h] = Max(@, endMin + scenario.reEntryDelayMin
                                       + scenario.blastLockoutMin)]
          ELSE headingReentryAllowedAt
    /\ headingTime' = [headingTime EXCEPT ![h] = endMin]
    /\ headingStageIndex' = [headingStageIndex EXCEPT
                               ![h] = IF roundDone THEN 1 ELSE @ + 1]
    /\ headingRoundIndex' = [headingRoundIndex EXCEPT
                               ![h] = IF roundDone THEN @ + 1 ELSE @]
    /\ roundsCompletedTotal' = IF roundDone THEN roundsCompletedTotal + 1
                               ELSE roundsCompletedTotal

commit(ps, best) ==
    commitStage(ps, best, best.headingIndex, best.stage,
                best.startMin + best.stage.durationMin,
                headingStageIndex[best.headingIndex] + 1 > Len(scenario.stages))

\* Lines 1161-1260: one iteration of the dispatcher that commits a stage.
Dispatch ==
    /\ epc = "dispatch"
    /\ \E found \in {scan(1, pools, NoBest)} :
          /\ found.thrown = "none"
          /\ found.best # NoBest
          /\ commit(found.pools, found.best)
    /\ UNCHANGED <<scenario, options, epc, result, thrown>>
    /\ UNCHANGED <<tickVars, seqVars, calVars, pbVars>>

\* ensurePool throws during the scan: simulateScenario returns nothing.
DispatchThrows ==
    /\ epc = "dispatch"
    /\ \E found \in {scan(1, pools, NoBest)} :
          /\ found.thrown # "none"
          /\ thrown' = found.thrown
          /\ pools' = found.pools
    /\ epc' = "error"
    /\ UNCHANGED <<scenario, options, headingTime, headingReentryAllowedAt,
                   headingRoundIndex, headingStageIndex, runs, roundsCompletedTotal, result>>
    /\ UNCHANGED <<tickVars, seqVars, calVars, pbVars>>

RECURSIVE busyOfHeading(_, _, _)
busyOfHeading(rs, h, i) ==
    IF i > Len(rs) THEN 0
    ELSE (IF rs[i].headingIndex = h /\ rs[i].endMin - rs[i].startMin > 0
          THEN rs[i].endMin - rs[i].startMin ELSE 0) + busyOfHeading(rs, h, i + 1)

\* Lines 1262-1317: the KPIs.  Quotients are kept as numerator and denominator.
evKpis(ps) ==
    LET simDays == options.simDays
        availableMinPerHeading == simDays * scenario.shiftsPerDay * shiftMinutesOf(options)
        metres == roundsCompletedTotal * scenario.advancePerRoundM
    IN [simDays |-> simDays,
        roundsCompletedTotal |-> roundsCompletedTotal,
        roundsCompletedPerHeading |-> [num |-> roundsCompletedTotal, den |-> scenario.headings],
        metresAdvancedTotal |-> metres,
        metresAdvancedPerHeading |-> [num |-> metres, den |-> scenario.headings],
        roundsPerDayTotal |-> [num |-> roundsCompletedTotal, den |-> simDays],
        metresPerDayTotal |-> [num |-> metres, den |-> simDays],
        busyMinPerHeading |-> [h \in 1..scenario.headings |-> busyOfHeading(runs, h, 1)],
        availableMinPerHeading |-> availableMinPerHeading,
        resourceUtilization |->
            [k \in DOMAIN ps |->
                [units |-> Len(ps[k].avail), busyMin |-> ps[k].busyMin,
                 availableMin |-> availableMinPerHeading * Len(ps[k].avail)]]]

\* No heading has a feasible next stage: the loop ends and the result is built.
SimulateScenarioFinish ==
    /\ epc = "dispatch"
    /\ \E found \in {scan(1, pools, NoBest)} :
          /\ found.thrown = "none"
          /\ found.best = NoBest
          /\ pools' = found.pools
          /\ result' = evKpis(found.pools)
    /\ epc' = "done"
    /\ UNCHANGED <<scenario, options, headingTime, headingReentryAllowedAt,
                   headingRoundIndex, headingStageIndex, runs, roundsCompletedTotal, thrown>>
    /\ UNCHANGED <<tickVars, seqVars, calVars, pbVars>>

(***************************************************************************)
(* The scenarios and options the event-dispatch runs start from.           *)
(***************************************************************************)
Stg(id, durationMin, isBlast, resourceKey) ==
    [id |-> id, name |-> id, durationMin |-> durationMin, isBlast |-> isBlast,
     resourceKey |-> resourceKey]

\* The cycle of the starter scenario (part_002 37-43), with the drill and
\* muck durations to choose.
StarterStages(drill, muck) ==
    << Stg("D", drill, FALSE, "DRILL_RIG"),
       Stg("C", 60, FALSE, "CHARGING_CREW"),
       Stg("BLAST", 10, TRUE, NoKey),
       Stg("M", muck, FALSE, "LHD"),
       Stg("SUPPORT", 120, FALSE, "SUPPORT_CREW") >>

\* A cycle whose resources are inferred from the stage ids.
InferredStages(drill) ==
    << Stg("DRILL", drill, FALSE, NoKey),
       Stg("CHARGE", 60, FALSE, NoKey),
       Stg("BLAST", 10, TRUE, NoKey),
       Stg("MUCK", 240, FALSE, NoKey) >>

EvScn(policy, nH, shiftsPerDay, stages) ==
    [name |-> "Starter Scenario", policy |-> policy, headings |-> nH,
     shiftsPerDay |-> shiftsPerDay, advancePerRoundM |-> 3,
     reEntryDelayMin |-> 30, blastLockoutMin |-> 60, stages |-> stages]

EvOpt(simDays, hasHours, hours, recordRuns, res) ==
    [simDays |-> simDays, hasHoursPerShift |-> hasHours, hoursPerShift |-> hours,
     recordRuns |-> recordRuns, resources |-> res]

EvCaps == [{"drillRigs", "lhds", "chargingCrews", "supportCrews"} -> 0..MaxCap]
EvOneEach == [k \in {"drillRigs", "lhds", "chargingCrews", "supportCrews"} |-> 1]

Policies == {"IMMEDIATE", "END_OF_SHIFT_ONLY"}

\* Headings contending for shared units, every capacity from 0 up.
EvContention ==
    { <<EvScn(policy, nH, 2, StarterStages(180, 240)), EvOpt(simDays, TRUE, 8, TRUE, res)>> :
        policy \in Policies, nH \in 1..MaxHeadings, simDays \in 1..MaxSimDays,
        res \in EvCaps }

\* Shift shapes and stage lengths, among them stages longer than a shift.
EvCalendar ==
    { <<EvScn(policy, nH, shiftsPerDay, stages), EvOpt(1, hrs # 0, hrs, rec, EvOneEach)>> :
        policy \in Policies, nH \in 1..MaxHeadings, shiftsPerDay \in {1, 2, 3},
        hrs \in {0, 6, 8, 12}, rec \in BOOLEAN,
        stages \in {StarterStages(180, 240), StarterStages(600, 240),
                    StarterStages(300, 420), InferredStages(180)} }

EvBase == EvScn("IMMEDIATE", 2, 2, StarterStages(180, 240))

\* One input off its range.
EvOdd ==
    { <<[EvBase EXCEPT !.name = ""], EvOpt(1, TRUE, 8, TRUE, EvOneEach)>>,
      <<[EvBase EXCEPT !.headings = 0], EvOpt(1, TRUE, 8, TRUE, EvOneEach)>>,
      <<[EvBase EXCEPT !.shiftsPerDay = 0], EvOpt(1, TRUE, 8, TRUE, EvOneEach)>>,
      <<[EvBase EXCEPT !.advancePerRoundM = 0], EvOpt(1, TRUE, 8, TRUE, EvOneEach)>>,
      <<[EvBase EXCEPT !.stages = <<>>], EvOpt(1, TRUE, 8, TRUE, EvOneEach)>>,
      <<[EvBase EXCEPT !.stages[1].id = ""], EvOpt(1, TRUE, 8, TRUE, EvOneEach)>>,
      <<[EvBase EXCEPT !.stages[2].name = ""], EvOpt(1, TRUE, 8, TRUE, EvOneEach)>>,
      <<[EvBase EXCEPT !.stages[4].durationMin = 0], EvOpt(1, TRUE, 8, TRUE, EvOneEach)>>,
      <<[EvBase EXCEPT !.reEntryDelayMin = -1], EvOpt(1, TRUE, 8, TRUE, EvOneEach)>>,
      <<[EvBase EXCEPT !.blastLockoutMin = -1], EvOpt(1, TRUE, 8, TRUE, EvOneEach)>>,
      <<EvBase, EvOpt(0, TRUE, 8, TRUE, EvOneEach)>>,
      <<EvBase, EvOpt(1, TRUE, 0, TRUE, EvOneEach)>> }

\* More headings than units, with two drill rigs and two LHDs.
EvTwoUnits ==
    { <<EvScn(policy, MaxHeadings + 1, 2, StarterStages(180, 240)),
        EvOpt(simDays, TRUE, 8, TRUE, [EvOneEach EXCEPT !.drillRigs = 2, !.lhds = 2])>> :
        policy \in Policies, simDays \in 1..MaxSimDays }

\* One shift a day that the drilling fills, or nearly: the stages after it
\* cannot start before the next day; every capacity from 0 up.
EvLateStages ==
    { <<EvScn(policy, nH, 1, StarterStages(drill, 240)), EvOpt(1, TRUE, hrs, TRUE, res)>> :
        policy \in Policies, nH \in 1..MaxHeadings, drill \in {330, 360},
        hrs \in {6, 8}, res \in EvCaps }

\* A cycle whose stages declare a resourceKey that their ids do not suggest.
DeclaredStages ==
    << Stg("FACE", 180, FALSE, "DRILL_RIG"),
       Stg("MUCK", 60, FALSE, "CHARGING_CREW"),
       Stg("BLAST", 10, TRUE, NoKey),
       Stg("CHARGE", 240, FALSE, "LHD"),
       Stg("DRILL", 120, FALSE, "SUPPORT_CREW") >>

EvDeclared ==
    { <<EvScn(policy, nH, 2, DeclaredStages), EvOpt(simDays, TRUE, 8, TRUE, EvOneEach)>> :
        policy \in Policies, nH \in 1..MaxHeadings, simDays \in 1..MaxSimDays }

EvInputs == EvContention \cup EvCalendar \cup EvOdd \cup EvTwoUnits \cup EvLateStages
                \cup EvDeclared

\* The tick engine is not running.
TickIdle ==
    /\ s = BaseScenario
    /\ captureTimeline = FALSE
    /\ pc = "idle"
    /\ nowMin = 0
    /\ hi = 0
    /\ headings = <<>>
    /\ avail = NoPool
    /\ openByHeading = <<>>
    /\ intervals = <<>>
    /\ kpis = NoKpis
    /\ errorMsg = "none"
    /\ tickWork = <<>>
    /\ runNo = 1
    /\ firstRun = NoRun

InitEvent ==
    /\ TickIdle
    /\ SeqIdle
    /\ CalIdle
    /\ PbIdle
    /\ \E inp \in EvInputs : scenario = inp[1] /\ options = inp[2]
    /\ epc = "start"
    /\ pools = <<>>
    /\ headingTime = <<>>
    /\ headingReentryAllowedAt = <<>>
    /\ headingRoundIndex = <<>>
    /\ headingStageIndex = <<>>
    /\ runs = <<>>
    /\ roundsCompletedTotal = 0
    /\ result = [simDays |-> 0]
    /\ thrown = "none"

NextEvent == SimulateScenarioStart \/ Dispatch \/ DispatchThrows \/ SimulateScenarioFinish

SpecEvent == InitEvent /\ [][NextEvent]_vars

(***************************************************************************)
(* Properties of the event-dispatch engine.                                *)
(***************************************************************************)
RunSet == {runs[j] : j \in DOMAIN runs}

\* The scheduled shift an instant falls in, by the calendar's rule: shifts
\* start at the day boundary and follow one another.
InWorkingTime(t) ==
    (t % MIN_PER_DAY) < scenario.shiftsPerDay * shiftMinutesOf(options)

ShiftStartOf(t) ==
    (t \div MIN_PER_DAY) * MIN_PER_DAY
        + ((t % MIN_PER_DAY) \div shiftMinutesOf(options)) * shiftMinutesOf(options)

WithinOneShift(r) ==
    /\ InWorkingTime(r.startMin)
    /\ r.endMin <= ShiftStartOf(r.startMin) + shiftMinutesOf(options)

\* C9 (as claimed): every recorded stage run lies inside a single scheduled
\* shift: it starts in working time and ends no later than the end of the
\* shift that contains its start.
C9_RunsInsideOneShift ==
    (epc \in {"dispatch", "done"}) => \A r \in RunSet : WithinOneShift(r)

(***************************************************************************)
(* The per-heading sequential engine (App.tsx 559-822): every heading runs *)
(* its rounds to the horizon on its own, with no shared resources.  Its    *)
(* assertScenario and shift-calendar helpers (App.tsx 576-703) are         *)
(* line for line those of the event-dispatch engine, modelled above.       *)
(***************************************************************************)
RECURSIVE sumDurations(_, _)
sumDurations(stages, i) ==
    IF i > Len(stages) THEN 0
    ELSE stages[i].durationMin + sumDurations(stages, i + 1)

totalRoundDuration(stages) == sumDurations(stages, 1)

\* Lines 746-781: the stages of one round from stage i on, at time t.  The
\* loop is left early (t = horizonMin) at the first stage that would end
\* after the horizon.
RECURSIVE runStages(_, _, _, _, _)
RECURSIVE runStage(_, _, _, _, _, _)
runStage(h, i, st, startMin, reentry, rs) ==
    IF startMin + st.durationMin > horizonMinOf(options)
    THEN [t |-> horizonMinOf(options), reentry |-> reentry, runs |-> rs]
    ELSE runStages(h, i + 1, startMin + st.durationMin,
                   IF st.isBlast
                   THEN Max(reentry, startMin + st.durationMin
                                       + scenario.reEntryDelayMin + scenario.blastLockoutMin)
                   ELSE reentry,
                   IF options.recordRuns
                   THEN Append(rs, [headingIndex |-> h, roundIndex |-> roundIndex,
                                    stageId |-> st.id, startMin |-> startMin,
                                    endMin |-> startMin + st.durationMin,
                                    isBlast |-> st.isBlast])
                   ELSE rs)

runStages(h, i, t, reentry, rs) ==
    IF i > Len(scenario.stages)
    THEN [t |-> t, reentry |-> reentry, runs |-> rs]
    ELSE runStage(h, i, scenario.stages[i],
                  fitStageIntoShift(Max(t, reentry), scenario.stages[i].durationMin,
                                    shiftMinutesOf(options), scenario.shiftsPerDay),
                  reentry, rs)

\* Lines 733-737: where heading h's next round would start.
seqRoundStart(h) ==
    roundStartTime(Max(headingTime[h], headingReentryAllowedAt[h]), scenario,
                   shiftMinutesOf(options))

\* Lines 739-743: the two tests that end a heading's while loop.
seqRoundFits(t) ==
    /\ ~(t >= horizonMinOf(options))
    /\ ~(t + totalRoundDuration(scenario.stages) > horizonMinOf(options))

\* Lines 706-729.
SeqStart ==
    /\ epc = "seqStart"
    /\ IF checkInputs(scenario, options) # "ok"
       THEN /\ epc' = "error"
            /\ thrown' = checkInputs(scenario, options)
            /\ UNCHANGED <<headingTime, headingReentryAllowedAt, runs,
                           roundsCompletedTotal, seqHeading, roundIndex>>
       ELSE /\ epc' = "seqLoop"
            /\ thrown' = "none"
            /\ headingTime' = [h \in 1..scenario.headings |-> 0]
            /\ headingReentryAllowedAt' = [h \in 1..scenario.headings |-> 0]
            /\ runs' = <<>>
            /\ roundsCompletedTotal' = 0
            /\ seqHeading' = 1
            /\ roundIndex' = 0
    /\ UNCHANGED <<scenario, options, pools, headingRoundIndex, headingStageIndex, result>>
    /\ UNCHANGED <<tickVars, calVars, pbVars>>

\* Lines 783-786: what follows the stage loop, however it was left.
seqRoundDone(r) ==
    /\ headingTime' = [headingTime EXCEPT ![seqHeading] = r.t]
    /\ headingReentryAllowedAt' = [headingReentryAllowedAt EXCEPT ![seqHeading] = r.reentry]
    /\ runs' = r.runs
    /\ roundsCompletedTotal' = roundsCompletedTotal + 1
    /\ roundIndex' = roundIndex + 1

\* Lines 731-786: one pass of the heading's while loop that runs a round.
SeqRound ==
    /\ epc = "seqLoop"
    /\ seqHeading <= scenario.headings
    /\ seqRoundFits(seqRoundStart(seqHeading))
    /\ seqRoundDone(runStages(seqHeading, 1, seqRoundStart(seqHeading),
                              headingReentryAllowedAt[seqHeading], runs))
    /\ UNCHANGED <<scenario, options, epc, pools, headingRoundIndex, headingStageIndex,
                   result, thrown, seqHeading>>
    /\ UNCHANGED <<tickVars, calVars, pbVars>>

\* Lines 739-743: the heading's loop ends and the next heading begins.
SeqNextHeading ==
    /\ epc = "seqLoop"
    /\ seqHeading <= scenario.headings
    /\ ~seqRoundFits(seqRoundStart(seqHeading))
    /\ seqHeading' = seqHeading + 1
    /\ roundIndex' = 0
    /\ UNCHANGED <<scenario, options, epc, pools, headingTime, headingReentryAllowedAt,
                   headingRoundIndex, headingStageIndex, runs, roundsCompletedTotal,
                   result, thrown>>
    /\ UNCHANGED <<tickVars, calVars, pbVars>>

\* Lines 789-821: the KPIs.  Quotients are kept as numerator and denominator;
\* headingUtilization is clamped to [0, 1].
seqKpis(roundDur, metres, availableMinPerHeading) ==
    [simDays |-> options.simDays,
     roundsCompletedTotal |-> roundsCompletedTotal,
     roundsCompletedPerHeading |-> [num |-> roundsCompletedTotal, den |-> scenario.headings],
     metresAdvancedTotal |-> metres,
     metresAdvancedPerHeading |-> [num |-> metres, den |-> scenario.headings],
     roundsPerDayTotal |-> [num |-> roundsCompletedTotal, den |-> options.simDays],
     metresPerDayTotal |-> [num |-> metres, den |-> options.simDays],
     headingUtilization |->
        IF availableMinPerHeading > 0
        THEN [num |-> Min(scenario.headings * availableMinPerHeading,
                          Max(0, roundsCompletedTotal * roundDur)),
              den |-> scenario.headings * availableMinPerHeading]
        ELSE [num |-> 0, den |-> 1]]

SeqFinish ==
    /\ epc = "seqLoop"
    /\ seqHeading > scenario.headings
    /\ result' = seqKpis(totalRoundDuration(scenario.stages),
                         roundsCompletedTotal * scenario.advancePerRoundM,
                         options.simDays * scenario.shiftsPerDay * shiftMinutesOf(options))
    /\ epc' = "done"
    /\ UNCHANGED <<scenario, options, pools, headingTime, headingReentryAllowedAt,
                   headingRoundIndex, headingStageIndex, runs, roundsCompletedTotal,
                   thrown, seqHeading, roundIndex>>
    /\ UNCHANGED <<tickVars, calVars, pbVars>>

\* Policies, shift shapes, stage lengths and horizons of one day and more.
SeqCalendar ==
    { <<EvScn(policy, nH, shiftsPerDay, stages),
        EvOpt(simDays, hrs # 0, hrs, rec, EvOneEach)>> :
        policy \in Policies, nH \in 1..MaxHeadings, shiftsPerDay \in {1, 2, 3},
        simDays \in 1..(MaxSimDays + 1), hrs \in {0, 6, 8, 12}, rec \in BOOLEAN,
        stages \in {StarterStages(180, 240), StarterStages(600, 240),
                    StarterStages(300, 420), InferredStages(180)} }

SeqInputs == SeqCalendar \cup EvOdd

InitSeq ==
    /\ TickIdle
    /\ \E inp \in SeqInputs : scenario = inp[1] /\ options = inp[2]
    /\ epc = "seqStart"
    /\ pools = <<>>
    /\ headingTime = <<>>
    /\ headingReentryAllowedAt = <<>>
    /\ headingRoundIndex = <<>>
    /\ headingStageIndex = <<>>
    /\ runs = <<>>
    /\ roundsCompletedTotal = 0
    /\ result = [simDays |-> 0]
    /\ thrown = "none"
    /\ seqHeading = 0
    /\ roundIndex = 0
    /\ CalIdle
    /\ PbIdle

NextSeq == SeqStart \/ SeqRound \/ SeqNextHeading \/ SeqFinish

SpecSeq == InitSeq /\ [][NextSeq]_vars

(***************************************************************************)
(* Properties of the sequential engine.                                    *)
(***************************************************************************)
RunsOfRound(h, r) == {j \in DOMAIN runs : runs[j].headingIndex = h /\ runs[j].roundIndex = r}

\* The rounds all of whose stages were scheduled (inside the horizon).
SeqWholeRounds ==
    {hr \in (1..scenario.headings) \X (0..roundsCompletedTotal) :
        /\ Cardinality(RunsOfRound(hr[1], hr[2])) = Len(scenario.stages)
        /\ \A j \in RunsOfRound(hr[1], hr[2]) : runs[j].endMin <= horizonMinOf(options)}

\* C13 (as claimed): the sequential engine counts a round only if every one
\* of its stages was scheduled with endMin <= horizon; a round broken off at
\* the horizon adds nothing to rounds or metres.
C13_OnlyWholeRoundsCounted ==
    (epc = "done" /\ seqHeading > 0 /\ options.recordRuns) =>
        /\ roundsCompletedTotal = Cardinality(SeqWholeRounds)
        /\ result.metresAdvancedTotal = Cardinality(SeqWholeRounds) * scenario.advancePerRoundM

(***************************************************************************)
(* Further properties of the event-dispatch engine.                        *)
(***************************************************************************)
EvRunning == epc \in {"dispatch", "done"} /\ seqHeading = 0

\* The rounds of which every stage has a recorded run.
EvWholeRounds ==
    {hr \in (1..scenario.headings) \X (0..roundsCompletedTotal) :
        \A i \in DOMAIN scenario.stages :
            \E j \in RunsOfRound(hr[1], hr[2]) : runs[j].stageId = scenario.stages[i].id}

\* C14: every recorded run of the event-dispatch engine has
\* 0 <= startMin < endMin <= horizonMin, and roundsCompletedTotal is the
\* number of rounds all of whose stages were committed.
C14_RunsInsideHorizon ==
    EvRunning =>
        /\ \A r \in RunSet :
              0 <= r.startMin /\ r.startMin < r.endMin
                  /\ r.endMin <= options.simDays * MIN_PER_DAY
        /\ options.recordRuns => roundsCompletedTotal = Cardinality(EvWholeRounds)

\* C14 witness: a finished run with a whole round counted and a later round
\* left unfinished because its next stage cannot end inside the horizon.
C14_Witness ==
    /\ epc = "done" /\ seqHeading = 0
    /\ options.recordRuns
    /\ roundsCompletedTotal >= 1
    /\ \E h \in 1..scenario.headings :
          /\ headingStageIndex[h] > 1
          /\ RunsOfRound(h, headingRoundIndex[h]) # {}
          /\ <<h, headingRoundIndex[h]>> \notin EvWholeRounds

\* The recorded runs holding a unit of kind k at minute t.
RunsUsing(k, t) ==
    {j \in DOMAIN runs : runs[j].resourceKey = k
                            /\ runs[j].startMin <= t /\ t < runs[j].endMin}

\* C17: no two recorded runs on the same unit of the same resource kind
\* overlap in time, and at every instant the runs using a kind are at most
\* its capacity.  (The number in use changes only where a run starts.)
C17_UnitsNeverShared ==
    EvRunning =>
        /\ \A a \in DOMAIN runs : \A b \in DOMAIN runs :
              (a < b /\ runs[a].resourceKey # NoKey
                     /\ runs[a].resourceKey = runs[b].resourceKey
                     /\ runs[a].resourceUnitIndex = runs[b].resourceUnitIndex) =>
                  (runs[a].endMin <= runs[b].startMin \/ runs[b].endMin <= runs[a].startMin)
        /\ \A a \in DOMAIN runs :
              runs[a].resourceKey # NoKey =>
                  Cardinality(RunsUsing(runs[a].resourceKey, runs[a].startMin))
                      <= getCapacityFor(runs[a].resourceKey, options)

\* C17 witness: three headings on two drill rigs; two headings drill at the
\* same time on different rigs and a third heading drills later on rig 1.
C17_Witness ==
    /\ epc = "done" /\ seqHeading = 0
    /\ \E a \in DOMAIN runs : \E b \in DOMAIN runs : \E c \in DOMAIN runs :
          /\ runs[a].resourceKey = "DRILL_RIG" /\ runs[b].resourceKey = "DRILL_RIG"
          /\ runs[c].resourceKey = "DRILL_RIG"
          /\ runs[a].resourceUnitIndex = 1 /\ runs[b].resourceUnitIndex = 2
          /\ runs[c].resourceUnitIndex = 1
          /\ runs[a].headingIndex # runs[c].headingIndex
          /\ runs[a].startMin < runs[b].endMin /\ runs[b].startMin < runs[a].endMin
          /\ runs[a].endMin <= runs[c].startMin

\* Heading h's next stage needs a resource kind with no capacity in the options.
NeedsMissing(h) ==
    /\ getStageResourceKey(scenario.stages[headingStageIndex[h]]) # NoKey
    /\ getCapacityFor(getStageResourceKey(scenario.stages[headingStageIndex[h]]), options) <= 0

\* The earliest time heading h's next stage could start: its clock and
\* lockout, moved to working time (to a shift boundary for a round start
\* under END_OF_SHIFT_ONLY).
EarliestStart(h) ==
    IF headingStageIndex[h] = 1
    THEN roundStartTime(Max(headingTime[h], headingReentryAllowedAt[h]), scenario,
                        shiftMinutesOf(options))
    ELSE normalizeToWorkingTime(Max(headingTime[h], headingReentryAllowedAt[h]),
                                shiftMinutesOf(options), scenario.shiftsPerDay)

StageOfRun(r) ==
    scenario.stages[CHOOSE i \in DOMAIN scenario.stages : scenario.stages[i].id = r.stageId]

\* C19 (as claimed): a stage that declares a resourceKey (any of DRILL_RIG,
\* LHD, CHARGING_CREW, SUPPORT_CREW) is run on a unit of exactly that pool,
\* whatever its id.
C19_DeclaredKeyIsUsed ==
    EvRunning =>
        \A r \in RunSet :
            StageOfRun(r).resourceKey \in EvResourceKeys =>
                r.resourceKey = StageOfRun(r).resourceKey

(***************************************************************************)
(* Properties of the back-compat wrapper.                                  *)
(***************************************************************************)
\* runEngine has been entered from the wrapper.
LegacyRunning == scenario \in LegacyScenarios \cup LegacyAliased /\ pc # "wrapper"

HorizonFromOptions == s.simDays = options.simDays

CapacitiesFromOptions ==
    /\ s.resources.drillRigs = options.resources.drillRigs
    /\ s.resources.lhds = options.resources.lhds
    /\ s.resources.supportCrews = options.resources.supportCrews
    /\ s.resources.blastCrews = options.resources.chargingCrews

TimelineAsRequested ==
    captureTimeline =
        (options.recordRuns \/ options.includeGantt \/ options.includeTimeline)

\* C20 (as claimed): a run started through the wrapper simulates
\* options.simDays days with the capacities of options.resources, and
\* records a timeline when the options ask for one.
C20_RunFollowsOptions ==
    LegacyRunning => HorizonFromOptions /\ CapacitiesFromOptions /\ TimelineAsRequested

(***************************************************************************)
(* Further properties of the tick engine: the stage cycle.                 *)
(***************************************************************************)
\* The tick engine is the one running.
TickRunning == epc = "idle" /\ pc \in {"loop", "headings"}

\* The stages a heading in stage a may enter next.
NextStages(a) ==
    CASE a = "DRILL"             -> {"CHARGE"}
      [] a = "CHARGE"            -> {"BLAST_READY"}
      [] a = "BLAST_READY"       -> IF s.shift.blastTiming = "midshift"
                                    THEN {"REENTRY"} ELSE {"WAITING_FOR_BLAST"}
      [] a = "REENTRY"           -> {"MUCK"}
      [] a = "WAITING_FOR_BLAST" -> {"MUCK"}
      [] a = "MUCK"              -> IF s.durations.support > 0 THEN {"SUPPORT"} ELSE {"DRILL"}
      [] a = "SUPPORT"           -> {"DRILL"}
      [] OTHER                   -> {}

NominalDuration(stage) ==
    CASE stage = "DRILL"   -> s.durations.drill
      [] stage = "CHARGE"  -> s.durations.charge
      [] stage = "MUCK"    -> s.durations.muck
      [] stage = "SUPPORT" -> s.durations.support

WorkStages == {"DRILL", "CHARGE", "MUCK", "SUPPORT"}

\* One step of a running engine: only the heading whose turn it is may change,
\* it changes stage along the cycle, and a work stage it enters starts with
\* its nominal duration.
StepAlongCycle ==
    TickRunning =>
        /\ pc = "loop" => (pc' = "headings" => headings' = headings)
        /\ pc = "headings" =>
              /\ \A j \in DOMAIN headings : j # hi => headings'[j] = headings[j]
              /\ headings'[hi].stage # headings[hi].stage =>
                    /\ headings'[hi].stage \in NextStages(headings[hi].stage)
                    /\ headings'[hi].stage \in WorkStages =>
                          headings'[hi].remainingMin = NominalDuration(headings'[hi].stage)

\* C21: in the tick engine a heading's stage changes only along DRILL ->
\* CHARGE -> BLAST_READY -> (REENTRY under midshift, WAITING_FOR_BLAST under
\* endOfShift) -> MUCK -> (SUPPORT iff the support duration is > 0) -> DRILL,
\* at most once per heading per tick, and a newly entered work stage starts
\* with its nominal duration as remaining time.
C21_StagesFollowCycle == [][StepAlongCycle]_vars

\* Whole cycles have been walked: a round with a support stage is complete
\* under end-of-shift blasting.
C21_Witness ==
    /\ TickRunning
    /\ s.durations.support > 0
    /\ s.shift.blastTiming = "endOfShift"
    /\ \E i \in DOMAIN headings : headings[i].roundsCompleted >= 1

\* The stage whose completion ends a round.
LastStage == IF s.durations.support > 0 THEN "SUPPORT" ELSE "MUCK"

\* The heading whose turn it is completes the last stage of its round in this step.
CompletesRound == headings[hi].stage = LastStage /\ headings'[hi].stage # LastStage

RoundCountedOnCompletion ==
    (TickRunning /\ pc = "headings") =>
        /\ \A j \in DOMAIN headings :
              j # hi => headings'[j].roundsCompleted = headings[j].roundsCompleted
        /\ IF CompletesRound
           THEN /\ headings'[hi].roundsCompleted = headings[hi].roundsCompleted + 1
                /\ headings'[hi].stage = "DRILL"
                /\ headings'[hi].remainingMin = s.durations.drill
           ELSE headings'[hi].roundsCompleted = headings[hi].roundsCompleted

\* C22: roundsCompleted of a heading grows by exactly 1 in the tick that
\* completes MUCK when the support duration is 0, or SUPPORT when it is > 0,
\* and in no other tick; that tick leaves the heading in DRILL with the
\* nominal drill duration.
C22_RoundCountedAtLastStage == [][RoundCountedOnCompletion]_vars

\* Rounds have been counted both without a support stage (after MUCK) and
\* with one: here a heading with a support stage is back in DRILL after a round.
C22_Witness ==
    /\ TickRunning
    /\ s.durations.support > 0
    /\ \E i \in DOMAIN headings :
          /\ headings[i].roundsCompleted >= 1
          /\ headings[i].stage = "DRILL"
          /\ headings[i].remainingMin = s.durations.drill

(***************************************************************************)
(* Further properties of the tick engine: blocked headings.                *)
(***************************************************************************)
\* The heading whose turn it is is in a work stage and no unit of its
\* resource is left in the tick's pool.
FindsNoUnit ==
    /\ TickRunning
    /\ pc = "headings"
    /\ headings[hi].stage \in WorkStages
    /\ avail[resourceForWorkStage(headings[hi].stage, s)] <= 0

BlockedStepChangesNothing ==
    FindsNoUnit => headings'[hi] = headings[hi] /\ avail' = avail

\* C23: when a heading in a work stage finds no unit of its resource left in
\* a tick, the tick leaves its stage, remainingMin, busyMin, roundsCompleted
\* and metresAdvanced unchanged and leaves the resource pool unchanged.
C23_BlockedTickChangesNothing == [][BlockedStepChangesNothing]_vars

\* A heading has been passed over in every tick so far although its resource
\* has capacity: the unit went to a heading before it.
C23_Witness ==
    /\ TickRunning
    /\ nowMin > 0
    /\ ConfiguredCap("drillRigs") >= 1
    /\ avail.drillRigs = 0
    /\ \E i \in DOMAIN headings :
          /\ pc = "loop" \/ i < hi
          /\ headings[i].stage = "DRILL"
          /\ headings[i].busyMin = 0
          /\ headings[i].remainingMin = s.durations.drill

(***************************************************************************)
(* Further properties of the tick engine: blasting.                        *)
(***************************************************************************)
Midshift == s.shift.blastTiming = "midshift"

\* The heading whose turn it is leaves BLAST_READY in this step.
LeavesBlastReady ==
    /\ TickRunning
    /\ pc = "headings"
    /\ headings[hi].stage = "BLAST_READY"
    /\ headings'[hi].stage # "BLAST_READY"

BlastTakesCrew ==
    (Midshift /\ LeavesBlastReady) =>
        /\ avail.blastCrews >= 1
        /\ avail'.blastCrews = avail.blastCrews - 1

\* C24 (as claimed): under midshift blasting a BLAST_READY heading leaves
\* BLAST_READY in a tick only if a blastCrews unit is still unallocated in
\* that tick's pool, and firing consumes that unit; with no crew left it
\* stays BLAST_READY until a later tick.
C24_BlastNeedsFreeCrew == [][BlastTakesCrew]_vars

\* tickMin divides the durations of the round and the re-entry delay.
TickDividesRound ==
    \A d \in {s.durations.drill, s.durations.charge, s.durations.muck, REENTRY_MIN_MIDSHIFT} :
        d > 0 /\ d % s.tickMin = 0

\* One heading, every kind resourced, no support stage: nothing is waited for.
Uncontended == s.headings = 1 /\ EveryKindResourced /\ s.durations.support = 0

\* The first tick of MUCK work of the first round is about to begin.
FirstMuckBegins ==
    /\ pc = "loop"
    /\ headings[1].roundsCompleted = 0
    /\ headings[1].stage = "MUCK"
    /\ headings[1].remainingMin = s.durations.muck

\* The first round has just been completed.
FirstRoundEnds ==
    /\ pc = "loop"
    /\ headings[1].roundsCompleted = 1
    /\ headings[1].stage = "DRILL"
    /\ headings[1].remainingMin = s.durations.drill

\* C25 (as claimed), on the first round of an uncontended heading, whose
\* CHARGE completes at T = drill + charge: under midshift blasting MUCK work
\* begins at exactly T + 30 and the round lasts drill + charge + 30 + muck
\* minutes, whenever tickMin divides these durations.
C25_MuckThirtyAfterCharge ==
    (TickRunning /\ Valid /\ Midshift /\ Uncontended /\ TickDividesRound) =>
        /\ FirstMuckBegins =>
              nowMin = s.durations.drill + s.durations.charge + REENTRY_MIN_MIDSHIFT
        /\ FirstRoundEnds =>
              nowMin = s.durations.drill + s.durations.charge + REENTRY_MIN_MIDSHIFT
                          + s.durations.muck

\* The time at which heading 1, never blocked, is first BLAST_READY.
FirstBlastReadyAt == s.durations.drill + s.durations.charge

\* tickMin divides the shift lengths and the durations up to the first blast.
TickDividesShift ==
    /\ s.shift.shiftDurationMin % s.tickMin = 0
    /\ getScheduledShiftMin(s) % s.tickMin = 0
    /\ \A d \in {s.durations.drill, s.durations.charge} : d > 0 /\ d % s.tickMin = 0

\* Heading 1 before the end of its first round, a tick about to begin at or
\* after the time it became BLAST_READY.
AfterFirstBlastReady ==
    /\ pc = "loop"
    /\ headings[1].roundsCompleted = 0
    /\ nowMin >= FirstBlastReadyAt

FirstBlastShift == shiftBoundaries(FirstBlastReadyAt, s)

\* C26 (as claimed), on the first round of the first heading: under
\* endOfShift blasting, with workable <= scheduled shift length and tickMin
\* dividing both, the heading that became BLAST_READY during a shift is
\* BLAST_READY until that shift's workable-minutes boundary,
\* WAITING_FOR_BLAST from then until the scheduled end of that shift, and
\* begins MUCK exactly at that scheduled shift end.
C26_BlastHeldToShiftEnd ==
    (TickRunning /\ Valid /\ ~Midshift /\ EveryKindResourced /\ TickDividesShift
        /\ AfterFirstBlastReady) =>
        /\ nowMin < FirstBlastShift.workEnd => headings[1].stage = "BLAST_READY"
        /\ (FirstBlastShift.workEnd < nowMin /\ nowMin < FirstBlastShift.shiftEnd) =>
              headings[1].stage = "WAITING_FOR_BLAST"
        /\ nowMin = FirstBlastShift.shiftEnd =>
              headings[1].stage = "MUCK" /\ headings[1].remainingMin = s.durations.muck

(***************************************************************************)
(* Further properties of the tick engine: shifts and resources.            *)
(***************************************************************************)
\* t lies in the shift-change window of its shift.
InShiftChange(t) ==
    shiftBoundaries(t, s).workEnd <= t /\ t < shiftBoundaries(t, s).shiftEnd

NoWorkInShiftChange ==
    (TickRunning /\ Valid /\ pc = "headings" /\ InShiftChange(nowMin)) =>
        /\ headings'[hi].busyMin = headings[hi].busyMin
        /\ headings[hi].stage \in WorkStages => headings'[hi] = headings[hi]

\* C27 (as claimed): in the tick engine no heading makes work-stage progress
\* or accrues busy minutes at a tick whose time lies between the
\* workable-minutes boundary and the scheduled end of the current shift.
C27_NoWorkInShiftChange == [][NoWorkInShiftChange]_vars

\* A step of a heading in SUPPORT that is not blocked takes its unit from the
\* drill rigs under jumbo bolting and from the support crews otherwise.
SupportTakesFrom(k) ==
    /\ avail'[k] = avail[k] - 1
    /\ \A o \in ResourceKeys \ {k} : avail'[o] = avail[o]

SupportStep ==
    (TickRunning /\ Valid /\ pc = "headings" /\ headings[hi].stage = "SUPPORT"
        /\ headings'[hi] # headings[hi]) =>
        IF s.support.jumboBolting THEN SupportTakesFrom("drillRigs")
        ELSE SupportTakesFrom("supportCrews")

\* Per tick, the headings that progressed on a drill rig are at most drillRigs.
RigUsersWithinRigs ==
    (TickRunning /\ Valid /\ s.support.jumboBolting) =>
        Cardinality(WorkedWith("drillRigs")) <= ConfiguredCap("drillRigs")

\* C28: with support.jumboBolting = true a heading in SUPPORT consumes a
\* drillRigs unit and never a supportCrews unit, so per tick the headings
\* progressing in DRILL or SUPPORT together are at most drillRigs; with the
\* flag false SUPPORT consumes only supportCrews.
C28_JumboSupportUsesRig == [][SupportStep /\ (RigUsersWithinRigs)']_vars

\* Under jumbo bolting with one rig and no support crew, a heading has
\* completed a round, support stage included, and in this tick a heading in
\* SUPPORT went without the rig that another heading drilled with.
C28_Witness ==
    /\ TickRunning
    /\ s.support.jumboBolting
    /\ s.durations.support > 0
    /\ ConfiguredCap("drillRigs") = 1
    /\ ConfiguredCap("supportCrews") = 0
    /\ pc = "loop"
    /\ \E i, j \in DOMAIN headings :
          /\ headings[i].roundsCompleted >= 1
          /\ tickWork[i] = "drillRigs"
          /\ headings[j].stage = "SUPPORT"
          /\ headings[j].busyMin > 0
          /\ tickWork[j] = NoKey

(***************************************************************************)
(* The tick loop as a function (simulate.ts 158-166), to set the run of a  *)
(* scenario beside the run of the same scenario with fewer headings.       *)
(***************************************************************************)
\* Lines 162-166: headings i, i+1, ... take their turn in the tick at now.
RECURSIVE runHeadingLoop(_, _, _, _, _)
runHeadingLoop(hs, i, now, sc, pool) ==
    IF i > sc.headings THEN hs
    ELSE runHeadingLoop([hs EXCEPT ![i] = advanceHeadingByTick(hs[i], now, sc.tickMin, sc, pool).h],
                        i + 1, now, sc,
                        advanceHeadingByTick(hs[i], now, sc.tickMin, sc, pool).avail)

\* Lines 118, 158-160: the headings as they are when the tick at now begins.
RECURSIVE runTickLoop(_, _)
runTickLoop(sc, now) ==
    IF now <= 0 THEN [i \in 1..sc.headings |-> newHeading(i, sc)]
    ELSE runHeadingLoop(runTickLoop(sc, now - sc.tickMin), 1, now - sc.tickMin, sc,
                        makeResourcePool(sc))

\* The scenario with only its first m headings.
FirstHeadings(m) == [s EXCEPT !.headings = m]

\* At the start of every tick, each heading stands where it stands in the run
\* of the scenario without the headings after it.
SameWithoutLater ==
    \A m \in 1..(s.headings - 1) :
        \A i \in 1..m : headings[i] = runTickLoop(FirstHeadings(m), nowMin)[i]

\* The first heading finds a unit whenever it is in a work stage.
FirstNeverBlocked ==
    (EveryKindResourced /\ pc = "headings" /\ hi = 1 /\ headings[1].stage \in WorkStages) =>
        avail[resourceForWorkStage(headings[1].stage, s)] >= 1

\* C29: within a tick the headings take resources in ascending index, so
\* the trajectory (stage, remainingMin, busyMin, rounds at every tick) of
\* heading i is the same whether or not headings with a higher index exist,
\* and the first heading is never blocked when every capacity is >= 1.
C29_LaterHeadingsDoNotMatter ==
    (TickRunning /\ Valid) =>
        /\ pc = "loop" => SameWithoutLater
        /\ FirstNeverBlocked

\* A run of several headings in which a later heading has been held back
\* behind the first, which has a round done.
C29_Witness ==
    /\ TickRunning
    /\ pc = "loop"
    /\ s.headings >= 2
    /\ headings[1].roundsCompleted >= 1
    /\ \E j \in 2..s.headings :
          /\ headings[j].roundsCompleted < headings[1].roundsCompleted
          /\ headings[j].busyMin < headings[1].busyMin

(***************************************************************************)
(* Further properties of the event-dispatch engine: the choice of the      *)
(* dispatcher.                                                             *)
(***************************************************************************)
\* This step of the dispatcher commits a stage.
Commits ==
    /\ EvRunning
    /\ epc = "dispatch"
    /\ headingStageIndex' # headingStageIndex \/ headingRoundIndex' # headingRoundIndex

\* The heading whose stage is committed in this step.
Committed ==
    CHOOSE h \in 1..scenario.headings :
        headingStageIndex'[h] # headingStageIndex[h] \/ headingRoundIndex'[h] # headingRoundIndex[h]

\* The start of the committed stage: its end less its duration.
CommittedStart ==
    headingTime'[Committed] - scenario.stages[headingStageIndex[Committed]].durationMin

\* The headings whose next stage can be run inside the horizon, and its start.
Feasible == {h \in 1..scenario.headings : candidate(h, pools).kind = "cand"}
FeasibleStart(h) == candidate(h, pools).best.startMin

CommitsEarliest ==
    Commits =>
        /\ Committed \in Feasible
        /\ CommittedStart = FeasibleStart(Committed)
        /\ \A h \in Feasible :
              \/ FeasibleStart(h) > CommittedStart
              \/ FeasibleStart(h) = CommittedStart /\ h >= Committed

\* C30: each iteration of the event dispatcher commits the stage whose
\* feasible start time is the minimum over all headings' next stages, and
\* among headings that tie on that start it commits the lowest index.
C30_DispatchesEarliestLowestIndex == [][CommitsEarliest]_vars

\* Two headings were offered the same start and the lower one was committed
\* first: their recorded runs of one stage start together, in index order.
C30_Witness ==
    /\ EvRunning
    /\ \E a, b \in DOMAIN runs :
          /\ a < b
          /\ runs[a].startMin = runs[b].startMin
          /\ runs[a].stageId = runs[b].stageId
          /\ runs[a].roundIndex = runs[b].roundIndex
          /\ runs[a].headingIndex < runs[b].headingIndex

(***************************************************************************)
(* Further properties of the event-dispatch engine: round starts and the   *)
(* blast lockout.                                                          *)
(***************************************************************************)
\* t is the start of a scheduled shift.
IsShiftStart(t) ==
    /\ withinDay(t) < scenario.shiftsPerDay * shiftMinutesOf(options)
    /\ withinDay(t) % shiftMinutesOf(options) = 0

\* C31 (as claimed): under END_OF_SHIFT_ONLY the first stage of every round
\* of every heading starts exactly at a shift-start boundary, also when
\* headings contend for a shared resource.
C31_RoundsStartOnBoundary ==
    (EvRunning /\ scenario.policy = "END_OF_SHIFT_ONLY") =>
        \A r \in RunSet :
            r.stageId = scenario.stages[1].id => IsShiftStart(r.startMin)

\* The safety wait after a blast.
LockoutMin == scenario.reEntryDelayMin + scenario.blastLockoutMin

\* C32: after a heading's blast stage ends at time e, no later stage of that
\* heading starts before e + reEntryDelayMin + blastLockoutMin.
C32_NoStartDuringLockout ==
    EvRunning =>
        \A a, b \in DOMAIN runs :
            (a < b /\ runs[a].isBlast /\ runs[b].headingIndex = runs[a].headingIndex) =>
                runs[b].startMin >= runs[a].endMin + LockoutMin

\* A heading has blasted and its next stage is committed, at the very end of
\* the wait, in a shift that was still open when the blast ended.
C32_Witness ==
    /\ EvRunning
    /\ LockoutMin > 0
    /\ \E a, b \in DOMAIN runs :
          /\ a < b
          /\ runs[a].isBlast
          /\ runs[b].headingIndex = runs[a].headingIndex
          /\ runs[b].startMin = runs[a].endMin + LockoutMin

(***************************************************************************)
(* The shift calendar helpers on their own (App.tsx 955-1040): the         *)
(* arguments are drawn from a grid of values the engine accepts            *)
(* (hoursPerShift > 0 at App.tsx 1137-1143, shiftsPerDay > 0 at 936,       *)
(* durationMin > 0 at 945-953), and each action applies one helper.        *)
(***************************************************************************)
MaxCalDays == 2

CalTimes == {k * 20 : k \in 0..((MaxCalDays * MIN_PER_DAY) \div 20)}

CalShiftMinutes == {h * MIN_PER_HOUR : h \in {6, 8, 10, 12}}

CalDurations == {20, 240, 480, 600}

CalInputs ==
    [tMin : CalTimes, durationMin : CalDurations,
     shiftMinutes : CalShiftMinutes, shiftsPerDay : 1..3]

InitCalendar ==
    /\ TickIdle
    /\ EvIdle
    /\ SeqIdle
    /\ PbIdle
    /\ calArgs \in CalInputs
    /\ calOut = NoArgs

ApplyNextShiftBoundary ==
    /\ calArgs # NoArgs
    /\ calOut = NoArgs
    /\ calOut' = [fn |-> "nextShiftBoundary",
                  r |-> nextShiftBoundary(calArgs.tMin, calArgs.shiftMinutes,
                                          calArgs.shiftsPerDay)]
    /\ UNCHANGED <<tickVars, evVars, seqVars, pbVars, calArgs>>

ApplyFitStageIntoShift ==
    /\ calArgs # NoArgs
    /\ calOut = NoArgs
    /\ calOut' = [fn |-> "fitStageIntoShift",
                  r |-> fitStageIntoShift(calArgs.tMin, calArgs.durationMin,
                                          calArgs.shiftMinutes, calArgs.shiftsPerDay)]
    /\ UNCHANGED <<tickVars, evVars, seqVars, pbVars, calArgs>>

NextCalendar == ApplyNextShiftBoundary \/ ApplyFitStageIntoShift

SpecCalendar == InitCalendar /\ [][NextCalendar]_vars

\* The shift starts of the calendar: day * 1440 + i * shiftMinutes with
\* 0 <= i < shiftsPerDay.
ShiftStarts ==
    {day * MIN_PER_DAY + i * calArgs.shiftMinutes :
        day \in 0..(MaxCalDays + 2), i \in 0..(calArgs.shiftsPerDay - 1)}

CalReturned(fn) == calArgs # NoArgs /\ calOut # NoArgs /\ calOut.fn = fn

\* C33 (as claimed): nextShiftBoundary returns the smallest time at or after
\* t that is a shift start, for every t, shiftMinutes and shiftsPerDay the
\* engine accepts.
C33_SmallestShiftStart ==
    CalReturned("nextShiftBoundary") =>
        /\ calOut.r \in ShiftStarts
        /\ calOut.r >= calArgs.tMin
        /\ \A x \in ShiftStarts : x >= calArgs.tMin => calOut.r <= x

\* C34 (as claimed): fitStageIntoShift returns t when t is in working time
\* and the stage ends by the end of t's shift, otherwise a later shift start;
\* the result is never before t and fitting it again returns it unchanged.
C34_FitIsFixedPoint ==
    CalReturned("fitStageIntoShift") =>
        LET t == calArgs.tMin
            d == calArgs.durationMin
            sm == calArgs.shiftMinutes
            spd == calArgs.shiftsPerDay
            fits == /\ isWithinScheduledShifts(withinDay(t), sm, spd)
                    /\ t + d <= shiftEndTime(t, sm, spd)
        IN /\ IF fits THEN calOut.r = t
              ELSE calOut.r > t /\ calOut.r \in ShiftStarts
           /\ calOut.r >= t
           /\ fitStageIntoShift(calOut.r, d, sm, spd) = calOut.r

(***************************************************************************)
(* The event-dispatch run taken to its end: the while loop of              *)
(* simulateScenario (App.tsx 1161-1260) keeps iterating until it breaks.   *)
(***************************************************************************)
SpecEventFair == SpecEvent /\ WF_vars(NextEvent)

\* An iteration that commits: one run of positive length that ends inside
\* the horizon, and the clock of its heading moves forward to the run's end.
CommitAdvances ==
    Commits =>
        /\ CommittedStart < headingTime'[Committed]
        /\ CommittedStart >= headingTime[Committed]
        /\ headingTime'[Committed] <= horizonMinOf(options)
        /\ \A h \in 1..scenario.headings :
              h # Committed => headingTime'[h] = headingTime[h]
        /\ options.recordRuns =>
              /\ Len(runs') = Len(runs) + 1
              /\ runs'[Len(runs')].headingIndex = Committed
              /\ runs'[Len(runs')].startMin = CommittedStart
              /\ runs'[Len(runs')].endMin = headingTime'[Committed]

\* The loop is left exactly when no heading has a feasible next stage.
StopsWhenInfeasible ==
    (EvRunning /\ epc = "dispatch") =>
        /\ Feasible = {} => epc' # "dispatch"
        /\ epc' = "done" => Feasible = {}

\* C35: the event dispatch loop terminates: each iteration commits one run
\* of positive length that ends at or before horizonMin and advances the
\* clock of its heading, and the loop stops as soon as no heading has a
\* feasible next stage inside the horizon.
C35_DispatchTerminates ==
    /\ [][CommitAdvances /\ StopsWhenInfeasible]_vars
    /\ <>(epc \in {"done", "error"})

\* The loop has ended after committing stages of every heading.
C35_Witness ==
    /\ EvRunning
    /\ epc = "done"
    /\ scenario.headings > 1
    /\ \A h \in 1..scenario.headings : headingTime[h] > 0 /\ headingRoundIndex[h] > 0

(***************************************************************************)
(* The pending-blast tick engine (App.tsx 19-557): the runEngine in which  *)
(* an end-of-shift blast is put on a list of pending blasts and fired by   *)
(* executePendingBlasts at the start of a later tick, and in which firing  *)
(* a blast takes a blast crew.  The run is the one of simulate(s) (App.tsx *)
(* 63-66): captureTimeline is false and no interval is recorded.           *)
(***************************************************************************)
\* App.tsx 425-454.
pbValidateScenario(sc) ==
    IF sc.simDays <= 0 THEN "simDays must be > 0"
    ELSE IF sc.tickMin <= 0 THEN "tickMin must be > 0"
    ELSE IF sc.headings <= 0 THEN "headings must be > 0"
    ELSE IF sc.metresPerRound <= 0 THEN "metresPerRound must be > 0"
    ELSE IF sc.shift.shiftDurationMin <= 0 THEN "shift.shiftDurationMin must be > 0"
    ELSE IF sc.shift.blastTiming \notin {"midshift", "endOfShift"}
         THEN "shift.blastTiming must be 'midshift' or 'endOfShift'"
    ELSE IF sc.durations.support < 0 THEN "durations.support must be >= 0 if provided"
    ELSE IF sc.hasResources /\ sc.resources.drillRigs < 0 THEN "resources.drillRigs must be >= 0"
    ELSE IF sc.hasResources /\ sc.resources.lhds < 0 THEN "resources.lhds must be >= 0"
    ELSE IF sc.hasResources /\ sc.resources.supportCrews < 0 THEN "resources.supportCrews must be >= 0"
    ELSE IF sc.hasResources /\ sc.resources.blastCrews < 0 THEN "resources.blastCrews must be >= 0"
    ELSE "ok"

\* App.tsx 554-557.
shiftEndMin(now, shiftDurationMin) ==
    (now \div shiftDurationMin) * shiftDurationMin + shiftDurationMin

\* App.tsx 368-381.
pbResourceForWorkStage(stage) ==
    CASE stage = "DRILL"   -> "drillRigs"
      [] stage = "CHARGE"  -> "blastCrews"
      [] stage = "MUCK"    -> "lhds"
      [] stage = "SUPPORT" -> "supportCrews"
      [] OTHER             -> NoKey

\* App.tsx 383-387: whether a unit was there, and the pool afterwards.
tryConsume(pool, key) ==
    IF pool[key] <= 0 THEN [ok |-> FALSE, avail |-> pool]
    ELSE [ok |-> TRUE, avail |-> [pool EXCEPT ![key] = @ - 1]]

\* App.tsx 330-334.
doBlast(h, sc) == [h EXCEPT !.stage = "MUCK", !.remainingMin = sc.durations.muck]

\* App.tsx 223-261: the work of one tick once the resource is held.
pbWorkTick(h, tickMin, sc) ==
    LET rem == IF h.remainingMin > 0 THEN Max(0, h.remainingMin - tickMin)
               ELSE h.remainingMin
        h1 == [h EXCEPT !.busyMin = @ + tickMin, !.remainingMin = rem]
    IN IF rem > 0 THEN h1
       ELSE CASE h.stage = "DRILL" ->
                   [h1 EXCEPT !.stage = "CHARGE", !.remainingMin = sc.durations.charge]
              [] h.stage = "CHARGE" ->
                   [h1 EXCEPT !.stage = "BLAST_READY", !.remainingMin = 0]
              [] h.stage = "MUCK" ->
                   IF sc.durations.support > 0
                   THEN [h1 EXCEPT !.stage = "SUPPORT", !.remainingMin = sc.durations.support]
                   ELSE [completeRound(h1, sc) EXCEPT !.stage = "DRILL",
                                                      !.remainingMin = sc.durations.drill]
              [] h.stage = "SUPPORT" ->
                   [completeRound(h1, sc) EXCEPT !.stage = "DRILL",
                                                 !.remainingMin = sc.durations.drill]
              [] OTHER -> h1

\* App.tsx 264-289: the heading `id`, blast-ready, with the pool and the
\* pending list as they are left.
pbOnBlastReady(h, id, now, pbs, sc, pool) ==
    IF sc.shift.blastTiming = "midshift"
    THEN IF tryConsume(pool, "blastCrews").ok
         THEN [h |-> doBlast(h, sc), avail |-> tryConsume(pool, "blastCrews").avail,
               pendingBlasts |-> pbs, used |-> "blastCrews"]
         ELSE [h |-> h, avail |-> pool, pendingBlasts |-> pbs, used |-> NoKey]
    ELSE [h |-> [h EXCEPT !.stage = "WAITING_FOR_BLAST", !.remainingMin = 0],
          avail |-> pool,
          pendingBlasts |->
              IF \E j \in DOMAIN pbs : pbs[j].headingId = id THEN pbs
              ELSE Append(pbs, [headingId |-> id,
                                scheduledAtMin |-> shiftEndMin(now, sc.shift.shiftDurationMin)]),
          used |-> NoKey]

\* App.tsx 197-262.
pbAdvanceHeadingByTick(h, id, now, tickMin, pbs, sc, pool) ==
    IF h.stage = "BLAST_READY" THEN pbOnBlastReady(h, id, now, pbs, sc, pool)
    ELSE IF h.stage = "WAITING_FOR_BLAST"
    THEN [h |-> h, avail |-> pool, pendingBlasts |-> pbs, used |-> NoKey]
    ELSE LET rKey == pbResourceForWorkStage(h.stage)
         IN IF rKey # NoKey /\ ~tryConsume(pool, rKey).ok
            THEN [h |-> h, avail |-> pool, pendingBlasts |-> pbs, used |-> NoKey]
            ELSE [h |-> pbWorkTick(h, tickMin, sc),
                  avail |-> IF rKey # NoKey THEN tryConsume(pool, rKey).avail ELSE pool,
                  pendingBlasts |-> pbs, used |-> rKey]

\* Array.prototype.sort with the comparator of line 301: stable, by time.
RECURSIVE insertByTime(_, _)
insertByTime(sorted, b) ==
    IF sorted = <<>> THEN <<b>>
    ELSE IF Head(sorted).scheduledAtMin <= b.scheduledAtMin
    THEN <<Head(sorted)>> \o insertByTime(Tail(sorted), b)
    ELSE <<b>> \o sorted

RECURSIVE sortByTime(_, _)
sortByTime(bs, sorted) ==
    IF bs = <<>> THEN sorted
    ELSE sortByTime(Tail(bs), insertByTime(sorted, Head(bs)))

\* A due blast that finds no crew is dropped from the list.
RECURSIVE servePendingDropping(_, _, _, _, _, _, _)
servePendingDropping(bs, now, hs, sc, pool, remaining, fired) ==
    IF bs = <<>>
    THEN [headings |-> hs, avail |-> pool, pendingBlasts |-> remaining, fired |-> fired]
    ELSE Bind(Head(bs), LAMBDA b :
         IF b.scheduledAtMin > now
         THEN servePendingDropping(Tail(bs), now, hs, sc, pool, Append(remaining, b), fired)
         ELSE IF b.headingId \notin DOMAIN hs
         THEN servePendingDropping(Tail(bs), now, hs, sc, pool, remaining, fired)
         ELSE IF hs[b.headingId].stage # "WAITING_FOR_BLAST"
         THEN servePendingDropping(Tail(bs), now, hs, sc, pool, remaining, fired)
         ELSE IF ~tryConsume(pool, "blastCrews").ok
         THEN servePendingDropping(Tail(bs), now, hs, sc, pool, remaining, fired)
         ELSE servePendingDropping(Tail(bs), now,
                           [hs EXCEPT ![b.headingId] = doBlast(@, sc)], sc,
                           tryConsume(pool, "blastCrews").avail, remaining,
                           fired \cup {b.headingId}))

\* App.tsx 303-327: the loop over the sorted list; `fired` collects the
\* headings whose blast was executed.
RECURSIVE servePending(_, _, _, _, _, _, _)
servePending(bs, now, hs, sc, pool, remaining, fired) ==
    IF bs = <<>>
    THEN [headings |-> hs, avail |-> pool, pendingBlasts |-> remaining, fired |-> fired]
    ELSE Bind(Head(bs), LAMBDA b :
         IF b.scheduledAtMin > now
         THEN servePending(Tail(bs), now, hs, sc, pool, Append(remaining, b), fired)
         ELSE IF b.headingId \notin DOMAIN hs
         THEN servePending(Tail(bs), now, hs, sc, pool, remaining, fired)
         ELSE IF hs[b.headingId].stage # "WAITING_FOR_BLAST"
         THEN servePending(Tail(bs), now, hs, sc, pool, remaining, fired)
         ELSE IF ~tryConsume(pool, "blastCrews").ok
         THEN servePending(Tail(bs), now, hs, sc, pool,
                           Append(remaining, [b EXCEPT !.scheduledAtMin = now + sc.tickMin]),
                           fired)
         ELSE servePending(Tail(bs), now,
                           [hs EXCEPT ![b.headingId] = doBlast(@, sc)], sc,
                           tryConsume(pool, "blastCrews").avail, remaining,
                           fired \cup {b.headingId}))

\* App.tsx 291-328.
executePendingBlasts(now, pbs, hs, sc, pool) ==
    IF pbs = <<>>
    THEN [headings |-> hs, avail |-> pool, pendingBlasts |-> pbs, fired |-> {}]
    ELSE servePending(sortByTime(pbs, <<>>), now, hs, sc, pool, <<>>, {})

\* App.tsx 126-136: validation, then the run's fresh state.
PbRunEngineStart ==
    /\ pc = "start"
    /\ IF pbValidateScenario(s) # "ok"
       THEN /\ pc' = "error"
            /\ errorMsg' = pbValidateScenario(s)
            /\ UNCHANGED <<nowMin, hi, headings, avail, tickWork, pendingBlasts>>
       ELSE /\ pc' = "loop"
            /\ errorMsg' = "none"
            /\ nowMin' = 0
            /\ hi' = 0
            /\ headings' = [i \in 1..s.headings |-> newHeading(i, s)]
            /\ pendingBlasts' = <<>>
            /\ avail' = NoPool
            /\ tickWork' = [i \in 1..s.headings |-> NoKey]
    /\ kpis' = NoKpis
    /\ UNCHANGED <<s, captureTimeline, openByHeading, intervals, runNo, firstRun>>
    /\ UNCHANGED <<evVars, seqVars, calVars>>

\* App.tsx 159-165: a tick begins with a fresh pool and the due blasts are
\* executed.
PbTickBegin ==
    /\ pc = "loop"
    /\ nowMin < simMinutesOf(s)
    /\ \E x \in {executePendingBlasts(nowMin, pendingBlasts, headings, s,
                                      makeResourcePool(s))} :
          /\ headings' = x.headings
          /\ avail' = x.avail
          /\ pendingBlasts' = x.pendingBlasts
          /\ tickWork' = [i \in 1..s.headings |->
                             IF i \in x.fired THEN "blastCrews" ELSE NoKey]
    /\ hi' = 1
    /\ pc' = "headings"
    /\ UNCHANGED <<s, captureTimeline, nowMin, openByHeading, intervals,
                   kpis, errorMsg, runNo, firstRun>>
    /\ UNCHANGED <<evVars, seqVars, calVars>>

\* App.tsx 167-177: one heading's turn in the tick; after the last heading
\* the clock moves on by tickMin.
PbHeadingStep ==
    /\ pc = "headings"
    /\ \E r \in {pbAdvanceHeadingByTick(headings[hi], hi, nowMin, s.tickMin,
                                        pendingBlasts, s, avail)} :
          /\ headings' = [headings EXCEPT ![hi] = r.h]
          /\ avail' = r.avail
          /\ pendingBlasts' = r.pendingBlasts
          /\ tickWork' = [tickWork EXCEPT ![hi] = r.used]
    /\ IF hi < s.headings
       THEN hi' = hi + 1 /\ UNCHANGED <<pc, nowMin>>
       ELSE hi' = 0 /\ pc' = "loop" /\ nowMin' = nowMin + s.tickMin
    /\ UNCHANGED <<s, captureTimeline, openByHeading, intervals, kpis, errorMsg,
                   runNo, firstRun>>
    /\ UNCHANGED <<evVars, seqVars, calVars>>

\* App.tsx 187-190: the KPIs are computed and progress asserted.
PbRunEngineFinish ==
    /\ pc = "loop"
    /\ ~(nowMin < simMinutesOf(s))
    /\ kpis' = computeKpis(headings, s, simMinutesOf(s))
    /\ errorMsg' = IF assertSimulationProgressRounds(s, headings) = "ok" THEN "none"
                   ELSE assertSimulationProgressRounds(s, headings)
    /\ pc' = IF assertSimulationProgressRounds(s, headings) = "ok" THEN "done" ELSE "error"
    /\ UNCHANGED <<s, captureTimeline, nowMin, hi, headings, avail, openByHeading,
                   intervals, tickWork, runNo, firstRun, pendingBlasts>>
    /\ UNCHANGED <<evVars, seqVars, calVars>>

\* The scenarios of the pending-blast runs: up to MaxHeadings + 1 headings,
\* blast crews from none to MaxCap + 1, rigs for one heading or for all.
PbScenarios ==
    { Scn(1, 60, nH, 3, shiftMin, shiftMin, blast, 120, charge, 120, support, TRUE,
          [drillRigs |-> rigs, lhds |-> nH, supportCrews |-> nH, blastCrews |-> crews],
          FALSE) :
        nH \in 1..(MaxHeadings + 1), shiftMin \in {480, 90}, blast \in BlastTimings,
        charge \in {60, 120}, support \in {0, 60}, rigs \in {1, MaxHeadings + 1},
        crews \in 0..(MaxCap + 1) }

\* One input off its range.
PbOddScenarios ==
    { [BaseScenario EXCEPT !.tickMin = 0],
      [BaseScenario EXCEPT !.shift.shiftDurationMin = 0],
      [BaseScenario EXCEPT !.resources.blastCrews = -1] }

InitPb ==
    /\ EvIdle
    /\ SeqIdle
    /\ CalIdle
    /\ PbIdle
    /\ s \in PbScenarios \cup PbOddScenarios
    /\ captureTimeline = FALSE
    /\ pc = "start"
    /\ nowMin = 0
    /\ hi = 0
    /\ headings = <<>>
    /\ avail = NoPool
    /\ openByHeading = <<>>
    /\ intervals = <<>>
    /\ kpis = NoKpis
    /\ errorMsg = "none"
    /\ tickWork = <<>>
    /\ runNo = 1
    /\ firstRun = NoRun

NextPb == PbRunEngineStart \/ PbTickBegin \/ PbHeadingStep \/ PbRunEngineFinish

SpecPb == InitPb /\ [][NextPb]_vars

\* The ticks keep coming until the horizon is reached.
SpecPbFair == SpecPb /\ WF_vars(NextPb)

PbRunning ==
    /\ epc = "idle"
    /\ calArgs = NoArgs
    /\ pc \in {"loop", "headings", "done", "error"}
    /\ pbValidateScenario(s) = "ok"

PbWaiting(h) == h \in DOMAIN headings /\ headings[h].stage = "WAITING_FOR_BLAST"

\* The pending blasts that are due when the tick at nowMin begins.
PbDue == {j \in DOMAIN pendingBlasts : pendingBlasts[j].scheduledAtMin <= nowMin}

\* The headings whose blast this step fires.
PbFired ==
    {h \in DOMAIN headings :
        /\ headings[h].stage \in {"WAITING_FOR_BLAST", "BLAST_READY"}
        /\ headings'[h].stage = "MUCK"}

\* The step that begins a tick serves the due blasts, earliest first, as far
\* as the blast crews go; the others stay pending for the next tick.
TickServesDue ==
    (PbRunning /\ pc = "loop" /\ pc' = "headings") =>
        /\ Cardinality(PbFired) = Min(Cardinality(PbDue), makeResourcePool(s).blastCrews)
        /\ avail'.blastCrews = makeResourcePool(s).blastCrews - Cardinality(PbFired)
        /\ \A j \in PbDue :
              \/ pendingBlasts[j].headingId \in PbFired
              \/ /\ headings'[pendingBlasts[j].headingId].stage = "WAITING_FOR_BLAST"
                 /\ \E k \in DOMAIN pendingBlasts' :
                       /\ pendingBlasts'[k].headingId = pendingBlasts[j].headingId
                       /\ pendingBlasts'[k].scheduledAtMin = nowMin + s.tickMin
                 /\ \A i \in PbDue :
                       pendingBlasts[i].headingId \in PbFired =>
                           pendingBlasts[i].scheduledAtMin <= pendingBlasts[j].scheduledAtMin
        /\ \A h \in DOMAIN headings :
              h \notin PbFired => headings'[h] = headings[h]

\* A heading's turn takes one blast crew when it charges or fires its blast,
\* and none otherwise.
TurnTakesCrew ==
    (PbRunning /\ pc = "headings") =>
        LET h == headings[hi]
            takes == \/ h.stage = "CHARGE" /\ headings'[hi].busyMin > h.busyMin
                     \/ hi \in PbFired
        IN /\ avail'.blastCrews = avail.blastCrews - (IF takes THEN 1 ELSE 0)
           /\ (h.stage \in {"CHARGE", "BLAST_READY"} /\ avail.blastCrews = 0
                  /\ s.shift.blastTiming = "midshift") => headings'[hi] = h

\* The crews are never overdrawn, no blast is due while the headings take
\* their turns, and a waiting heading has its pending blast.
PbPendingKept ==
    PbRunning =>
        /\ avail.blastCrews >= 0
        /\ pc = "headings" =>
              \A j \in DOMAIN pendingBlasts : pendingBlasts[j].scheduledAtMin > nowMin
        /\ \A h \in DOMAIN headings :
              PbWaiting(h) <=>
                  \E j \in DOMAIN pendingBlasts : pendingBlasts[j].headingId = h

\* The pending blast of heading h is scheduled early enough for every heading
\* ahead of it to be served inside the horizon.
PbInTime(h) ==
    /\ PbRunning
    /\ PbWaiting(h)
    /\ makeResourcePool(s).blastCrews >= 1
    /\ \E j \in DOMAIN pendingBlasts :
          /\ pendingBlasts[j].headingId = h
          /\ pendingBlasts[j].scheduledAtMin + (s.headings + 1) * s.tickMin
                <= simMinutesOf(s)

PbBlasted(h) == h \in DOMAIN headings /\ headings[h].stage = "MUCK"

\* C36: in every tick of the pending-blast engine the due deferred blasts
\* are served before any heading advances; each fired blast and each
\* charging heading takes one blast crew and the crews are never overdrawn;
\* a due blast that finds no crew stays pending for the next tick, and with
\* a blast crew every waiting heading is blasted in the end.
C36_PendingBlastsServed ==
    /\ [][TickServesDue /\ TurnTakesCrew]_vars
    /\ []PbPendingKept
    /\ \A h \in 1..(MaxHeadings + 1) : PbInTime(h) ~> PbBlasted(h)

\* A blast that found no crew at the shift end is fired one tick later.
C36_Witness ==
    /\ PbRunning
    /\ s.shift.blastTiming = "endOfShift"
    /\ pc = "headings"
    /\ hi = 1
    /\ nowMin % s.shift.shiftDurationMin = s.tickMin
    /\ \E h \in DOMAIN headings : tickWork[h] = "blastCrews" /\ headings[h].stage = "MUCK"

\* The length of a round when nothing has to be waited for.
NominalCycle(sc) ==
    sc.durations.drill + sc.durations.charge + REENTRY_MIN_MIDSHIFT
        + sc.durations.muck + sc.durations.support

\* Every capacity is at least 1 and the horizon holds a cycle for every
\* heading, one after the other.
CapacitiesAndHorizon ==
    /\ \A k \in ResourceKeys : makeResourcePool(s)[k] >= 1
    /\ simMinutesOf(s) >= s.headings * NominalCycle(s)

\* C37 (as claimed): in the tick engine with every capacity at least 1 and a
\* long horizon, no heading is left without a completed round while another
\* heading keeps cycling.
C37_EveryHeadingCompletesRound ==
    (epc = "idle" /\ calArgs = NoArgs /\ pc = "done" /\ CapacitiesAndHorizon
        /\ \E h \in DOMAIN headings : headings[h].roundsCompleted >= 3) =>
            \A h \in DOMAIN headings : headings[h].roundsCompleted >= 1

(***************************************************************************)
(* simulate(s), then simulateDetailed(s) on the same scenario              *)
(* (simulate.ts 52-61): the first run records no timeline, the second      *)
(* does; the outcome of the first is kept aside.                           *)
(***************************************************************************)
InitSimulate ==
    /\ Init
    /\ ~captureTimeline

RunDetailed ==
    /\ pc \in {"done", "error"}
    /\ runNo = 1
    /\ firstRun' = [pc |-> pc, kpis |-> kpis, intervals |-> intervals, errorMsg |-> errorMsg,
                    headings |-> headings, tickWork |-> tickWork]
    /\ captureTimeline' = TRUE
    /\ runNo' = 2
    /\ pc' = "start"
    /\ UNCHANGED <<s, nowMin, hi, headings, avail, openByHeading, intervals, kpis,
                   errorMsg, tickWork>>
    /\ UNCHANGED <<evVars, seqVars, calVars, pbVars>>

NextBothCaptures ==
    RunEngineStart \/ TickBegin \/ HeadingStep \/ RunEngineFinish \/ RunDetailed

SpecBothCaptures == InitSimulate /\ [][NextBothCaptures]_vars

\* C38: the run that records the timeline ends as the run that does not:
\* the same KPIs, the same error or none, every heading in the same state
\* and the same resources taken in the last tick.
C38_TimelineLeavesKpisUnchanged ==
    (runNo = 2 /\ captureTimeline /\ pc \in {"done", "error"}) =>
        /\ pc = firstRun.pc
        /\ errorMsg = firstRun.errorMsg
        /\ kpis = firstRun.kpis
        /\ headings = firstRun.headings
        /\ tickWork = firstRun.tickWork

\* The recording run has ended with rounds completed and a wait for a
\* resource on its timeline.
C38_Witness ==
    /\ runNo = 2
    /\ captureTimeline
    /\ pc = "done"
    /\ kpis.roundsCompletedTotal > 0
    /\ firstRun.intervals = <<>>
    /\ \E j \in DOMAIN intervals : intervals[j].stage = "WAITING_FOR_RESOURCE"

\* The run of the same heading that follows run a in the result.
NextRunOfHeading(a, b) ==
    /\ a < b
    /\ runs[b].headingIndex = runs[a].headingIndex
    /\ \A c \in DOMAIN runs : (a < c /\ c < b) => runs[c].headingIndex # runs[a].headingIndex

\* The position in the scenario's cycle of the stage a run belongs to.
StageIndexOfRun(r) ==
    CHOOSE i \in DOMAIN scenario.stages : scenario.stages[i].id = r.stageId

====
